---- MODULE Spec2Model ----
(***************************************************************************)
(* Token acquisition and caching workflow of the LlamaStack auth demo      *)
(* scripts (scripts/interactive-demo.py, scripts/auth-demo.py).            *)
(*                                                                         *)
(* Strings of the program are sequences of one-character strings, byte     *)
(* strings are sequences of integers 0..255.                               *)
(***************************************************************************)
EXTENDS Integers, Sequences, FiniteSets, TLC

(***************************************************************************)
(* Library conversions used by decode_token_claims: str.split,             *)
(* base64.b64decode (binascii.a2b_base64, non-strict) and json.loads.      *)
(***************************************************************************)

\* str.split('.'): the segments between the separators, at least one.
RECURSIVE SplitFrom(_, _, _, _)
SplitFrom(s, i, cur, acc) ==
    IF i > Len(s) THEN Append(acc, cur)
    ELSE IF s[i] = "." THEN SplitFrom(s, i + 1, <<>>, Append(acc, cur))
    ELSE SplitFrom(s, i + 1, Append(cur, s[i]), acc)

SplitDots(s) == SplitFrom(s, 1, <<>>, <<>>)

\* The standard base-64 alphabet (table_a2b_base64): position - 1 is the value.
B64Chars ==
    << "A","B","C","D","E","F","G","H","I","J","K","L","M","N","O","P",
       "Q","R","S","T","U","V","W","X","Y","Z","a","b","c","d","e","f",
       "g","h","i","j","k","l","m","n","o","p","q","r","s","t","u","v",
       "w","x","y","z","0","1","2","3","4","5","6","7","8","9","+","/" >>

IsB64Char(c) == \E i \in 1..64 : B64Chars[i] = c

B64Value(c) == (CHOOSE i \in 1..64 : B64Chars[i] = c) - 1

\* The decoding loop of a2b_base64 with strict_mode off: characters outside
\* the alphabet are skipped, a completed pad sequence ends the input, and a
\* dangling quad is an error (binascii.Error).
RECURSIVE A2bLoop(_, _, _, _, _, _)
A2bLoop(s, i, quad_pos, leftchar, pads, out) ==
    IF i > Len(s)
    THEN IF quad_pos # 0 THEN [ok |-> FALSE, bytes |-> <<>>]
         ELSE [ok |-> TRUE, bytes |-> out]
    ELSE IF s[i] = "="
    THEN IF quad_pos >= 2 /\ quad_pos + pads + 1 >= 4
         THEN [ok |-> TRUE, bytes |-> out]
         ELSE A2bLoop(s, i + 1, quad_pos, leftchar,
                      IF quad_pos >= 2 THEN pads + 1 ELSE pads, out)
    ELSE IF ~IsB64Char(s[i])
    THEN A2bLoop(s, i + 1, quad_pos, leftchar, pads, out)
    ELSE LET c == B64Value(s[i]) IN
         CASE quad_pos = 0 -> A2bLoop(s, i + 1, 1, c, 0, out)
           [] quad_pos = 1 ->
                A2bLoop(s, i + 1, 2, c % 16, 0,
                        Append(out, (leftchar * 4 + c \div 16) % 256))
           [] quad_pos = 2 ->
                A2bLoop(s, i + 1, 3, c % 4, 0,
                        Append(out, (leftchar * 16 + c \div 4) % 256))
           [] OTHER ->
                A2bLoop(s, i + 1, 0, 0, 0,
                        Append(out, (leftchar * 64 + c) % 256))

\* base64.b64decode(s) with the default alphabet and validate=False.
B64Decode(s) == A2bLoop(s, 1, 0, 0, 0, <<>>)

\* '=' * n
RECURSIVE Pad(_)
Pad(n) == IF n <= 0 THEN <<>> ELSE <<"=">> \o Pad(n - 1)

(***************************************************************************)
(* json.loads on a byte string: UTF-8 decoding, then one JSON value with   *)
(* optional surrounding whitespace.  The result keeps the type of the      *)
(* value and its Python truth value, which is all the program looks at.    *)
(***************************************************************************)
JFail == [ok |-> FALSE, next |-> 0, kind |-> "none", truthy |-> FALSE]

JVal(n, k, t) == [ok |-> TRUE, next |-> n, kind |-> k, truthy |-> t]

\* Lead byte and continuation bytes of UTF-8 (bytes.decode('utf-8')).
RECURSIVE Utf8Valid(_, _)
Utf8Valid(b, i) ==
    IF i > Len(b) THEN TRUE
    ELSE LET n == IF b[i] < 128 THEN 0
                  ELSE IF b[i] >= 194 /\ b[i] <= 223 THEN 1
                  ELSE IF b[i] >= 224 /\ b[i] <= 239 THEN 2
                  ELSE IF b[i] >= 240 /\ b[i] <= 244 THEN 3
                  ELSE 4
         IN  /\ n # 4
             /\ i + n <= Len(b)
             /\ \A k \in 1..n : b[i + k] >= 128 /\ b[i + k] <= 191
             /\ Utf8Valid(b, i + n + 1)

RECURSIVE SkipWs(_, _)
SkipWs(b, i) ==
    IF i <= Len(b) /\ b[i] \in {32, 9, 10, 13} THEN SkipWs(b, i + 1) ELSE i

IsDigit(x) == x >= 48 /\ x <= 57

IsHex(x) == IsDigit(x) \/ (x >= 65 /\ x <= 70) \/ (x >= 97 /\ x <= 102)

RECURSIVE SkipDigits(_, _)
SkipDigits(b, i) ==
    IF i <= Len(b) /\ IsDigit(b[i]) THEN SkipDigits(b, i + 1) ELSE i

\* i is the position after the opening quote; the result is the position
\* after the closing quote, or 0 when the string is not terminated or holds
\* a control character or an invalid escape.
RECURSIVE ScanString(_, _)
ScanString(b, i) ==
    IF i > Len(b) THEN 0
    ELSE IF b[i] = 34 THEN i + 1
    ELSE IF b[i] < 32 THEN 0
    ELSE IF b[i] = 92
    THEN IF i + 1 > Len(b) THEN 0
         ELSE IF b[i + 1] \in {34, 92, 47, 98, 102, 110, 114, 116}
         THEN ScanString(b, i + 2)
         ELSE IF /\ b[i + 1] = 117
                 /\ i + 5 <= Len(b)
                 /\ \A k \in 2..5 : IsHex(b[i + k])
         THEN ScanString(b, i + 6)
         ELSE 0
    ELSE ScanString(b, i + 1)

\* -?(0|[1-9]\d*)(\.\d+)?([eE][-+]?\d+)? starting at i: the position after
\* the match, 0 when there is none.  es is the position of the exponent's
\* digits, fe the end of the fraction, ie the end of the integer part.
ExpDigits(b, fe, es) ==
    IF es <= Len(b) /\ IsDigit(b[es]) THEN SkipDigits(b, es) ELSE fe

ExpPart(b, fe) ==
    IF fe <= Len(b) /\ b[fe] \in {101, 69}
    THEN ExpDigits(b, fe, IF fe + 1 <= Len(b) /\ b[fe + 1] \in {43, 45}
                          THEN fe + 2 ELSE fe + 1)
    ELSE fe

FracPart(b, ie) ==
    ExpPart(b, IF ie + 1 <= Len(b) /\ b[ie] = 46 /\ IsDigit(b[ie + 1])
               THEN SkipDigits(b, ie + 1) ELSE ie)

IntPart(b, s) ==
    IF s > Len(b) \/ ~IsDigit(b[s]) THEN 0
    ELSE FracPart(b, IF b[s] = 48 THEN s + 1 ELSE SkipDigits(b, s))

NumberEnd(b, i) == IntPart(b, IF i <= Len(b) /\ b[i] = 45 THEN i + 1 ELSE i)

\* The number b[i..e-1] is zero: all its mantissa digits are '0'.
NumberIsZero(b, i, e) ==
    \A k \in i..(e - 1) :
        (IsDigit(b[k]) /\ ~\E j \in i..(k - 1) : b[j] \in {101, 69})
            => b[k] = 48

MatchWord(b, i, w) ==
    /\ i + Len(w) - 1 <= Len(b)
    /\ \A k \in 1..Len(w) : b[i + k - 1] = w[k]

RECURSIVE ParseValue(_, _)
RECURSIVE ParseArrayRest(_, _)
RECURSIVE ParseObjectRest(_, _)

\* v is the element just parsed: ',' value ... or ']' follows.
AfterElement(b, v) ==
    IF v.ok THEN ParseArrayRest(b, SkipWs(b, v.next)) ELSE JFail

ParseArrayRest(b, j) ==
    IF j > Len(b) THEN JFail
    ELSE IF b[j] = 93 THEN JVal(j + 1, "arr", TRUE)
    ELSE IF b[j] = 44 THEN AfterElement(b, ParseValue(b, SkipWs(b, j + 1)))
    ELSE JFail

\* e is the position after a member's value: '}' or ',' "key" ...
MemberEnd(b, e) ==
    IF e > Len(b) THEN JFail
    ELSE IF b[e] = 125 THEN JVal(e + 1, "obj", TRUE)
    ELSE IF b[e] = 44 THEN ParseObjectRest(b, SkipWs(b, e + 1))
    ELSE JFail

AfterMember(b, v) ==
    IF v.ok THEN MemberEnd(b, SkipWs(b, v.next)) ELSE JFail

\* c is the position where the ':' after a key must be.
AfterKey(b, c) ==
    IF c > Len(b) \/ b[c] # 58 THEN JFail
    ELSE AfterMember(b, ParseValue(b, SkipWs(b, c + 1)))

\* k is the position after the key's closing quote, 0 for a bad key.
KeyEnd(b, k) == IF k = 0 THEN JFail ELSE AfterKey(b, SkipWs(b, k))

\* i is the position where a key's opening quote must be.
ParseObjectRest(b, i) ==
    IF i > Len(b) \/ b[i] # 34 THEN JFail
    ELSE KeyEnd(b, ScanString(b, i + 1))

StringValue(i, e) == IF e = 0 THEN JFail ELSE JVal(e, "str", e > i + 2)

ObjectBody(b, j) ==
    IF j <= Len(b) /\ b[j] = 125 THEN JVal(j + 1, "obj", FALSE)
    ELSE ParseObjectRest(b, j)

ArrayBody(b, j) ==
    IF j <= Len(b) /\ b[j] = 93 THEN JVal(j + 1, "arr", FALSE)
    ELSE AfterElement(b, ParseValue(b, j))

NumberValue(b, i, e) ==
    IF e = 0 THEN JFail ELSE JVal(e, "num", ~NumberIsZero(b, i, e))

ParseValue(b, i) ==
    IF i > Len(b) THEN JFail
    ELSE IF b[i] = 34 THEN StringValue(i, ScanString(b, i + 1))
    ELSE IF b[i] = 123 THEN ObjectBody(b, SkipWs(b, i + 1))
    ELSE IF b[i] = 91 THEN ArrayBody(b, SkipWs(b, i + 1))
    ELSE IF MatchWord(b, i, <<116, 114, 117, 101>>)
    THEN JVal(i + 4, "bool", TRUE)
    ELSE IF MatchWord(b, i, <<102, 97, 108, 115, 101>>)
    THEN JVal(i + 5, "bool", FALSE)
    ELSE IF MatchWord(b, i, <<110, 117, 108, 108>>)
    THEN JVal(i + 4, "null", FALSE)
    ELSE IF MatchWord(b, i, <<78, 97, 78>>)
    THEN JVal(i + 3, "num", TRUE)
    ELSE IF MatchWord(b, i, <<73, 110, 102, 105, 110, 105, 116, 121>>)
    THEN JVal(i + 8, "num", TRUE)
    ELSE IF MatchWord(b, i, <<45, 73, 110, 102, 105, 110, 105, 116, 121>>)
    THEN JVal(i + 9, "num", TRUE)
    ELSE NumberValue(b, i, NumberEnd(b, i))

\* The value must be followed by nothing but whitespace.
WholeDocument(b, v) ==
    IF v.ok /\ SkipWs(b, v.next) = Len(b) + 1 THEN v ELSE JFail

\* json.loads(bytes): raises (ok = FALSE) on invalid UTF-8, on an invalid
\* document and on data after the value.
JsonLoads(b) ==
    IF ~Utf8Valid(b, 1) THEN JFail
    ELSE WholeDocument(b, ParseValue(b, SkipWs(b, 1)))

(***************************************************************************)
(* Python values that flow through the program: a string or None.          *)
(***************************************************************************)
PyNone == [t |-> "none", s |-> <<>>]

PyStr(s) == [t |-> "str", s |-> s]

\* bool(v) as used by "if token", "if not self.token".
Truthy(v) == v.t = "str" /\ v.s # <<>>

(***************************************************************************)
(* decode_token_claims: the try body and its except handler.               *)
(***************************************************************************)
Raised == [raised |-> TRUE, kind |-> "none", truthy |-> FALSE]

\* {}
EmptyClaims == [raised |-> FALSE, kind |-> "obj", truthy |-> FALSE]

\* return json.loads(decoded)
LoadedClaims(loaded) ==
    IF ~loaded.ok THEN Raised
    ELSE [raised |-> FALSE, kind |-> loaded.kind, truthy |-> loaded.truthy]

\* decoded = base64.b64decode(payload)
DecodedPayload(decoded) ==
    IF ~decoded.ok THEN Raised ELSE LoadedClaims(JsonLoads(decoded.bytes))

\* if len(parts) != 3: return {}; payload = parts[1] with '=' appended
DecodeParts(parts) ==
    IF Len(parts) # 3 THEN EmptyClaims
    ELSE DecodedPayload(B64Decode(parts[2] \o Pad(4 - (Len(parts[2]) % 4))))

\* What the try body does: returns a value or raises (token.split raises
\* when the token is not a string).
DecodeBody(token) ==
    IF token.t # "str" THEN Raised ELSE DecodeParts(SplitDots(token.s))

\* except Exception: return {}
ExceptReturnEmpty(r) == IF r.raised THEN EmptyClaims ELSE r

\* The handler is missing: what the body raises reaches the caller.
DecodeTokenClaimsNoHandler(token) == DecodeBody(token)

DecodeTokenClaims(token) == ExceptReturnEmpty(DecodeBody(token))

(***************************************************************************)
(* Bounds of the model and constants of the program.                       *)
(***************************************************************************)
\* The clock is observed up to MaxTime seconds: in the first two seconds, and
\* from the fourth minute on in the last second of a minute and the first of
\* the next.
MaxTime == 300

\* Number of program runs (processes started one after the other).
MaxRuns == 3

\* "60 second buffer" of load_cached_token.
SafetyMargin == 60

\* token_data.get('expires_in', 300)
DefaultExpiresIn == 300

Times == {0, 1} \cup {t \in 239..MaxTime : t % 60 \in {0, 59}}

Users == {"alice"}

\* default of --keycloak-url
DefaultUrl == "https://kc-keycloak.com"

\* --keycloak-url values (after rstrip('/')); the first is the default.
Urls == {"https://kc-keycloak.com",
         "https://kc90810.example.com",
         "https://kc131579.example.com"}

\* hashlib.md5(f"{keycloak_url}:{realm}".encode()).hexdigest()[:8] with
\* realm = "llamastack-demo", evaluated for the URLs of the model.
CacheKey(url) ==
    CASE url = "https://kc-keycloak.com"      -> "3039b3d0"
      [] url = "https://kc90810.example.com"  -> "cbf54759"
      [] url = "https://kc131579.example.com" -> "cbf54759"

\* cache_dir / f"token_{username}_{cache_key}.json"
TokenCachePath(url, username) == <<username, CacheKey(url)>>

Paths == {TokenCachePath(u, n) : u \in Urls, n \in Users}

(***************************************************************************)
(* Tokens the authority may put in a response.  The middle segment of the  *)
(* first is base64 of {"a":1}; of the second base64url of {"a":"~~~"},     *)
(* which contains '-'.                                                     *)
(***************************************************************************)
TokJwt == <<"h", ".", "e","y","J","h","I","j","o","x","f","Q", ".", "s">>

TokJwtUrl ==
    <<"h", ".", "e","y","J","h","I","j","o","i","f","n","5","-","I","n","0",
      ".", "s">>

\* two segments
TokTwoSegments == <<"h", ".", "s">>

\* middle segment of one character: not base64
TokBadBase64 == <<"h", ".", "M", ".", "s">>

\* middle segment decodes to "{": not JSON
TokNotJson == <<"h", ".", "e", "3", ".", "s">>

\* middle segment decodes to {}
TokEmptyClaims == <<"h", ".", "e", "3", "0", ".", "s">>

\* middle segment decodes to the JSON number 1
TokNumberClaims == <<"h", ".", "M", "Q", ".", "s">>

TokenStrings ==
    {TokJwt, TokJwtUrl, TokTwoSegments, TokBadBase64, TokNotJson,
     TokEmptyClaims, TokNumberClaims, <<>>}

\* token_data.get('access_token'): a string, or None when the field is absent.
AccessTokens == {PyStr(t) : t \in TokenStrings} \cup {PyNone}

\* The authority's answer to the token request: HTTP 200 with a JSON body,
\* another status, or an exception of requests.post (network error, timeout).
Ok200(t, h, e) ==
    [kind |-> "ok", access_token |-> t, has_expires_in |-> h, expires_in |-> e]

Failures ==
    {[kind |-> k, access_token |-> PyNone, has_expires_in |-> FALSE,
      expires_in |-> 0] : k \in {"http_error", "exception"}}

\* The tokens of the workflow model: well-formed ones, one with two segments,
\* one whose claims are not an object, and a response without access_token.
RunTokens ==
    {PyStr(TokJwt), PyStr(TokJwtUrl), PyStr(TokTwoSegments),
     PyStr(TokNumberClaims), PyNone}

\* Every such token with the usual lifetime, sent or left to the default, and
\* a well-formed token whose lifetime equals the safety margin.
Responses ==
    {Ok200(t, TRUE, DefaultExpiresIn) : t \in RunTokens}
    \cup {Ok200(PyStr(TokJwt), FALSE, 0), Ok200(PyStr(TokJwt), TRUE, SafetyMargin)}
    \cup Failures

\* The answers used when several authorities share the cache directory.
KeyResponses == {Ok200(PyStr(TokJwt), TRUE, DefaultExpiresIn)} \cup Failures

(***************************************************************************)
(* The persisted cache entry: a file that is absent, or holds text that    *)
(* is not JSON, a JSON value that is not an object, or a JSON object.      *)
(***************************************************************************)
FMissing == [t |-> "missing", n |-> 0, s |-> <<>>]

FNull == [t |-> "null", n |-> 0, s |-> <<>>]

FNum(n) == [t |-> "num", n |-> n, s |-> <<>>]

FStr(s) == [t |-> "str", n |-> 0, s |-> s]

Absent ==
    [kind |-> "absent", access_token |-> FMissing, expires_at |-> FMissing,
     cached_at |-> FMissing]

InvalidText ==
    [kind |-> "invalid", access_token |-> FMissing, expires_at |-> FMissing,
     cached_at |-> FMissing]

NonObject ==
    [kind |-> "nonobject", access_token |-> FMissing, expires_at |-> FMissing,
     cached_at |-> FMissing]

Object(a, e, c) ==
    [kind |-> "object", access_token |-> a, expires_at |-> e, cached_at |-> c]

\* json.dump of a string or None, and the value json.load gives back.
ToJson(v) == IF v.t = "none" THEN FNull ELSE FStr(v.s)

FromJson(f) == IF f.t = "str" THEN PyStr(f.s) ELSE PyNone

\* What another program, or an interrupted write, can leave in a cache file.
MalformedContents ==
    {InvalidText, NonObject,
     Object(FStr(TokJwt), FStr(<<"x">>), FNum(0)),
     Object(FStr(TokJwt), FNull, FNum(0))}

(***************************************************************************)
(* load_cached_token and save_token_to_cache.                              *)
(***************************************************************************)
\* dict.get(key, default) on a parsed object.
DictGet(f, default) == IF f.t = "missing" THEN default ELSE f

Miss == [raised |-> FALSE, result |-> PyNone]

Throws == [raised |-> TRUE, result |-> PyNone]

\* claims = self.decode_token_claims(token); if claims: return token
VerifiedToken(token, c) ==
    IF c.raised THEN Throws
    ELSE IF c.truthy THEN [raised |-> FALSE, result |-> token]
    ELSE Miss

\* if token and time.time() < (expires_at - 60): ... else: "expired"
\* (expires_at - 60 raises unless expires_at is a number)
CheckedEntry(token, expires_at, t) ==
    IF ~Truthy(token) THEN Miss
    ELSE IF expires_at.t # "num" THEN Throws
    ELSE IF t < expires_at.n - SafetyMargin
    THEN VerifiedToken(token, DecodeTokenClaims(token))
    ELSE Miss

\* The entry check without the "verify token is actually valid" step.
CheckedEntryNoValidation(token, expires_at, t) ==
    IF ~Truthy(token) THEN Miss
    ELSE IF expires_at.t # "num" THEN Throws
    ELSE IF t < expires_at.n - SafetyMargin
    THEN [raised |-> FALSE, result |-> token]
    ELSE Miss

LoadBodyNoValidation(file, t) ==
    IF file.kind \in {"invalid", "nonobject"} THEN Throws
    ELSE CheckedEntryNoValidation(FromJson(DictGet(file.access_token, FNull)),
                                  DictGet(file.expires_at, FNum(0)), t)

\* The try body of load_cached_token on an existing file at time t: it
\* returns the token, falls through to "return None", or raises (json.load
\* on text that is not JSON, cache_data.get on a value that is not an object).
LoadBody(file, t) ==
    IF file.kind \in {"invalid", "nonobject"} THEN Throws
    ELSE CheckedEntry(FromJson(DictGet(file.access_token, FNull)),
                      DictGet(file.expires_at, FNum(0)), t)

\* except Exception: print; return None
ExceptReturnNone(r) == IF r.raised THEN Miss ELSE r

\* The except handler is missing: what the body raises reaches the caller.
LoadCachedTokenNoHandler(file, t) ==
    IF file.kind = "absent" THEN Miss ELSE LoadBody(file, t)

\* if not cache_file.exists(): return None; try: ... except: ...; return None
LoadCachedToken(file, t) ==
    IF file.kind = "absent" THEN Miss ELSE ExceptReturnNone(LoadBody(file, t))

\* open(cache_file, 'x'): an existing file is not replaced.
SaveTokenToCacheKeepExisting(file, token, expires_in, t, io) ==
    CASE file.kind # "absent" -> file
      [] io = "ok" -> Object(ToJson(token), FNum(t + expires_in), FNum(t))
      [] io = "open_fails" -> file
      [] io = "dump_fails" -> InvalidText

\* save_token_to_cache is not called.
SaveTokenToCacheSkipped(file, token, expires_in, t, io) == file

\* The file after save_token_to_cache at time t.  io is what the file system
\* does: "ok", "open_fails" (open raises, the file is untouched) or
\* "dump_fails" (the file is truncated by open and the write is cut short).
\* Both failures are caught and only print a warning.
SaveTokenToCache(file, token, expires_in, t, io) ==
    CASE io = "ok" -> Object(ToJson(token), FNum(t + expires_in), FNum(t))
      [] io = "open_fails" -> file
      [] io = "dump_fails" -> InvalidText

IoOutcomes == {"ok", "open_fails", "dump_fails"}

\* save_token_to_cache without its try/except: a failed write raises.
SaveTokenToCacheRaisesNoHandler(io) == io # "ok"

\* Whether save_token_to_cache raises to get_token: never, "except Exception"
\* around the write only prints a warning.
SaveTokenToCacheRaises(io) == FALSE

\* open(cache_file, 'w') in a directory that does not exist raises
\* FileNotFoundError: save_token_to_cache does not create the directory.
OpenOutcome(dir_exists, io) == IF dir_exists THEN io ELSE "open_fails"

(***************************************************************************)
(* main(): argument handling.                                              *)
(***************************************************************************)
AvailableTests == {"models", "files", "vectors", "mcp", "team"}

\* The characters of each test name and of 'all'.
TestWord ==
    [models  |-> <<"m", "o", "d", "e", "l", "s">>,
     files   |-> <<"f", "i", "l", "e", "s">>,
     vectors |-> <<"v", "e", "c", "t", "o", "r", "s">>,
     mcp     |-> <<"m", "c", "p">>,
     team    |-> <<"t", "e", "a", "m">>]

AllWord == <<"a", "l", "l">>

AvailableWords == {TestWord[n] : n \in AvailableTests}

\* The test whose name is spelled by q, one of the available words.
TestNamed(q) == CHOOSE n \in AvailableTests : TestWord[n] = q

\* --tests values: 'all', lists of valid names (also in capitals and with
\* spaces), lists with a name that is not a test.
TestsArgs ==
    {AllWord,
     <<"m","o","d","e","l","s", ",", "f","i","l","e","s">>,
     <<"M","o","d","e","l","s", ",", " ", "f","i","l","e","s", " ">>,
     <<"b","o","g","u","s">>,
     <<"m","o","d","e","l","s", ",", "b","o","g","u","s">>,
     <<"a","l","l", ",", "m","o","d","e","l","s">>}

\* The --tests values of the workflow model: all suites, two suites, and a
\* name that is not a suite.
RunTestsArgs ==
    {AllWord,
     <<"m","o","d","e","l","s", ",", "f","i","l","e","s">>,
     <<"b","o","g","u","s">>}

Range(q) == {q[i] : i \in 1..Len(q)}

\* str.lower() on the letters that occur.
UpperLetters ==
    <<"A","B","C","D","E","F","G","H","I","J","K","L","M",
      "N","O","P","Q","R","S","T","U","V","W","X","Y","Z">>

LowerLetters ==
    <<"a","b","c","d","e","f","g","h","i","j","k","l","m",
      "n","o","p","q","r","s","t","u","v","w","x","y","z">>

LowerChar(c) ==
    IF \E i \in 1..26 : UpperLetters[i] = c
    THEN LowerLetters[CHOOSE i \in 1..26 : UpperLetters[i] = c]
    ELSE c

Lower(q) == [i \in 1..Len(q) |-> LowerChar(q[i])]

\* str.strip(): leading and trailing whitespace removed.
IsSpace(c) == c \in {" ", "\t", "\n", "\r"}

RECURSIVE StripLeft(_)
StripLeft(q) ==
    IF q # <<>> /\ IsSpace(Head(q)) THEN StripLeft(Tail(q)) ELSE q

RECURSIVE StripRight(_)
StripRight(q) ==
    IF q # <<>> /\ IsSpace(q[Len(q)])
    THEN StripRight(SubSeq(q, 1, Len(q) - 1)) ELSE q

Strip(q) == StripRight(StripLeft(q))

\* str.split(',')
RECURSIVE SplitCommasFrom(_, _, _, _)
SplitCommasFrom(s, i, cur, acc) ==
    IF i > Len(s) THEN Append(acc, cur)
    ELSE IF s[i] = "," THEN SplitCommasFrom(s, i + 1, <<>>, Append(acc, cur))
    ELSE SplitCommasFrom(s, i + 1, Append(cur, s[i]), acc)

SplitCommas(s) == SplitCommasFrom(s, 1, <<>>, <<>>)

\* if args.tests.lower() == 'all'
SelectsAll(tests) == Lower(tests) = AllWord

\* requested_tests = {t.strip().lower() for t in args.tests.split(',')}
RequestedTests(tests) == {Lower(Strip(t)) : t \in Range(SplitCommas(tests))}

\* Invalid names are dropped instead of reported.
InvalidTestsIgnored(requested) == {}

\* invalid_tests = requested_tests - available_tests
InvalidTests(requested) == requested \ AvailableWords

\* if invalid_tests: ... sys.exit(1)
TestsRejected(tests) ==
    ~SelectsAll(tests) /\ InvalidTests(RequestedTests(tests)) # {}

\* tests_to_run
TestsToRun(tests) ==
    IF SelectsAll(tests) THEN AvailableTests
    ELSE {TestNamed(q) : q \in RequestedTests(tests) \cap AvailableWords}

\* main()'s handling of each --tests value of the model.
ParsedTests ==
    [tests \in TestsArgs |->
        [rejected |-> TestsRejected(tests), tests_to_run |-> TestsToRun(tests)]]

(***************************************************************************)
(* State.                                                                  *)
(***************************************************************************)
VARIABLES
    now,        \* time.time()
    files,      \* the cache directory: content of each cache file
    stored,     \* history: the last save that wrote each file in full
    runs,       \* number of program runs started
    pc,         \* position of the current run
    args,       \* keycloak_url, username, use_cache, tests_to_run
    token,      \* self.token
    prompts,    \* password prompts shown in this run
    authCalls,  \* token requests sent to the authority in this run
    lookup,     \* history: the load_cached_token call of this run
    issued,     \* history: the token request of this run, with the
                \* access_token of the 200 response and what get_token returned
    claims,     \* run_demo's decoded claims
    suitesRun,  \* test suites run against the gateway in this run
    returned,   \* run_demo's outcome: "none", "True", "False", "raised"
    exit_code,  \* process exit status, -1 while running
    cache_dir,  \* whether the directory self.cache_dir exists
    suite,      \* position of run_demo within its sequence of test suites
    results,    \* gateway calls made by the test suites and their outcome
    argv,       \* the command line: whether a client secret is given, --tests
    team_stores,\* the gateway: number of vector stores named vs_mlteam_team
    ad_pc,      \* auth-demo.py: position of the run
    ad_unauth,  \* auth-demo.py: outcome of the unauthenticated request
    ad_user,    \* auth-demo.py: index in self.users of the next user
    ad_requests,\* auth-demo.py: token requests sent, per user
    ad_results, \* auth-demo.py: all_results
    ad_returned,\* auth-demo.py: run_demo's outcome
    ad_exit,    \* auth-demo.py: process exit status, -1 while running
    ad_last,    \* auth-demo.py, history: the latest run_user_tests call, its
                \* user, whether a token was obtained, the answers to its
                \* test cases
    disk,       \* concurrent runs: the text of the one cache file they share
    proc,       \* concurrent runs: position, read buffer, entry and lookup
                \* of each process
    written,    \* concurrent runs: the entries whose write has completed
    last_written, \* concurrent runs: the entry of the latest completed write
    kc_pc,      \* setup-keycloak.py: position of setup_all
    kc_admin_token, \* setup-keycloak.py: self.admin_token
    kc_log,     \* setup-keycloak.py, history: the steps setup_all ran, in
                \* order, with what each returned and the answers it got
    kc_secret,  \* setup-keycloak.py: outcome of get_client_secret
    kc_returned,\* setup-keycloak.py: what setup_all returned
    kc_exit     \* setup-keycloak.py: process exit status, -1 while running

\* The state of auth-demo.py, a program of its own.
authVars ==
    <<ad_pc, ad_unauth, ad_user, ad_requests, ad_results, ad_returned, ad_exit,
      ad_last>>

\* The state of interactive-demo.py and of its cache directory.
demoVars ==
    <<now, files, stored, runs, pc, args, token, prompts, authCalls, lookup,
      issued, claims, suitesRun, returned, exit_code, cache_dir, suite,
      results, argv, team_stores>>

\* The state of the runs that share one cache file at the same time.
raceVars == <<disk, proc, written, last_written>>

\* The state of setup-keycloak.py, a program of its own.
kcVars == <<kc_pc, kc_admin_token, kc_log, kc_secret, kc_returned, kc_exit>>

vars == <<demoVars, authVars, raceVars, kcVars, team_stores>>

NoStore ==
    [set |-> FALSE, url |-> "", token |-> PyNone, expires_in |-> 0, at |-> 0]

NoArgv == [has_secret |-> FALSE, tests |-> <<>>]

NoArgs ==
    [keycloak_url |-> "", username |-> "", use_cache |-> FALSE,
     tests_to_run |-> {}]

NoLookup ==
    [called |-> FALSE, at |-> 0, file |-> Absent, stored |-> NoStore,
     raised |-> FALSE, result |-> PyNone]

NoIssue ==
    [called |-> FALSE, at |-> 0, kind |-> "none", access_token |-> PyNone,
     expires_in |-> 0, io |-> "none", response_token |-> PyNone]

NoClaims == [decoded |-> FALSE, kind |-> "none", truthy |-> FALSE]

CachePath == TokenCachePath(args.keycloak_url, args.username)

\* No gateway call made yet: the calls made, those that were denied or
\* failed, the calls in the order they were made, whether test_file_id is
\* set, and what test_access_to_team_vector_store returned ("none" before
\* the call).
NoResults == [calls |-> {}, failed |-> {}, order |-> <<>>,
              file_id |-> FALSE, team_access |-> "none"]

\* auth-demo.py: an HTTP response with its status code, or the exception
\* that requests.get / requests.post raised instead.
Http(code) == [raised |-> FALSE, status_code |-> code]

ConnectionFailed == [raised |-> TRUE, status_code |-> 0]

NoUnauth == [called |-> FALSE, response |-> ConnectionFailed,
             success |-> FALSE]

\* No entry, and the lookup that has not been made.
NoEntry == [token |-> <<>>, expires_at |-> 0, cached_at |-> 0]

NoRead == [called |-> FALSE, file |-> Absent, raised |-> FALSE,
           result |-> PyNone]

\* The processes that share the cache file.
Procs == {1, 2}

\* No concurrent run has started and the shared cache file does not exist.
RaceIdle ==
    /\ disk = [exists |-> FALSE, text |-> <<>>]
    /\ proc = [p \in Procs |->
                 [pc |-> "idle", runs |-> 0, buf |-> <<>>, entry |-> NoEntry,
                  read |-> NoRead]]
    /\ written = {}
    /\ last_written = [set |-> FALSE, entry |-> NoEntry]

\* run_user_tests has not been called.
NoUserTests == [user |-> 0, token |-> FALSE, answers |-> <<>>]

\* auth-demo.py is not running.
AuthIdle ==
    /\ ad_last = NoUserTests
    /\ ad_pc = "idle"
    /\ ad_unauth = NoUnauth
    /\ ad_user = 1
    /\ ad_requests = <<0, 0, 0>>
    /\ ad_results = <<>>
    /\ ad_returned = "none"
    /\ ad_exit = -1

\* setup-keycloak.py is not running: self.admin_token is None, no step has
\* run, setup_all has not returned.
KcIdle ==
    /\ kc_pc = "idle"
    /\ kc_admin_token = "None"
    /\ kc_log = <<>>
    /\ kc_secret = "none"
    /\ kc_returned = "none"
    /\ kc_exit = -1

Init ==
    /\ now = 0
    /\ files = [p \in Paths |-> Absent]
    /\ stored = [p \in Paths |-> NoStore]
    /\ runs = 0
    /\ pc = "idle"
    /\ args = NoArgs
    /\ token = PyNone
    /\ prompts = 0
    /\ authCalls = 0
    /\ lookup = NoLookup
    /\ issued = NoIssue
    /\ claims = NoClaims
    /\ suitesRun = {}
    /\ returned = "none"
    /\ exit_code = -1
    /\ cache_dir = TRUE
    /\ suite = "models"
    /\ results = NoResults
    /\ argv = NoArgv
    /\ team_stores = 0
    /\ AuthIdle
    /\ RaceIdle
    /\ KcIdle

(***************************************************************************)
(* Decisions of run_demo and get_token.                                    *)
(***************************************************************************)
FirstStepAlwaysLoad(use_cache) == "load"

\* if use_cache: load_cached_token; self.token is None otherwise, so the
\* password is asked for next.
FirstStep(use_cache) == IF use_cache THEN "load" ELSE "password"

ProceedsAlways(tok) == TRUE

\* "if not self.token: return False" after get_token
Proceeds(tok) == Truthy(tok)

StatusOkAlways(resp) == TRUE

\* if response.status_code == 200: (an exception of requests.post skips it)
StatusOk(resp) == resp.kind = "ok"

\* get_token's return value: the access_token of a 200 response, else None.
GetTokenResult(resp) ==
    IF resp.kind = "ok" THEN resp.access_token ELSE PyNone

(***************************************************************************)
(* Actions.                                                                *)
(***************************************************************************)
\* A new process: main() checks its arguments, constructs the demo object
\* (self.token = None, the cache directory is created if it is missing) and
\* enters run_demo up to the cache lookup.
Main(url, username, has_secret, no_cache, tests) ==
    /\ pc \in {"idle", "exited"}
    /\ runs < MaxRuns
    /\ runs' = runs + 1
    /\ token' = PyNone
    /\ prompts' = 0
    /\ authCalls' = 0
    /\ lookup' = NoLookup
    /\ issued' = NoIssue
    /\ claims' = NoClaims
    /\ suitesRun' = {}
    /\ returned' = "none"
    /\ suite' = "models"
    /\ results' = NoResults
    /\ argv' = [has_secret |-> has_secret, tests |-> tests]
    /\ IF ~has_secret \/ ParsedTests[tests].rejected
       THEN /\ args' = NoArgs
            /\ exit_code' = 1
            /\ pc' = "exited"
            /\ cache_dir' = cache_dir
       ELSE /\ args' = [keycloak_url |-> url, username |-> username,
                        use_cache |-> ~no_cache,
                        tests_to_run |-> ParsedTests[tests].tests_to_run]
            /\ exit_code' = -1
            /\ pc' = FirstStep(~no_cache)
            /\ cache_dir' = TRUE
    /\ UNCHANGED <<now, files, stored, authVars, raceVars, kcVars, team_stores>>

\* A lookup that unlinks the entry it rejects.
LoadStepEvicting ==
    /\ pc = "load"
    /\ \E r \in {LoadCachedToken(files[CachePath], now)} :
       /\ lookup' = [called |-> TRUE, at |-> now, file |-> files[CachePath],
                     stored |-> stored[CachePath], raised |-> r.raised,
                     result |-> r.result]
       /\ files' = IF Truthy(r.result) THEN files
                   ELSE [files EXCEPT ![CachePath] = Absent]
       /\ token' = r.result
       /\ pc' = IF Truthy(r.result) THEN "client" ELSE "password"
    /\ UNCHANGED <<now, stored, runs, args, prompts, authCalls, issued,
                   claims, suitesRun, returned, exit_code, cache_dir, suite,
                   results, authVars, raceVars, kcVars, team_stores, argv>>

\* if use_cache: self.token = self.load_cached_token(username)
LoadStep ==
    /\ pc = "load"
    /\ \E r \in {LoadCachedToken(files[CachePath], now)} :
       /\ lookup' = [called |-> TRUE, at |-> now, file |-> files[CachePath],
                     stored |-> stored[CachePath], raised |-> r.raised,
                     result |-> r.result]
       /\ IF r.raised
          THEN /\ returned' = "raised"
               /\ exit_code' = 1
               /\ pc' = "exited"
               /\ token' = token
          ELSE /\ token' = r.result
               /\ pc' = IF Truthy(r.result) THEN "client" ELSE "password"
               /\ UNCHANGED <<returned, exit_code>>
    /\ UNCHANGED <<now, files, stored, runs, args, prompts, authCalls, issued,
                   claims, suitesRun, cache_dir, suite, results, authVars, raceVars, kcVars, team_stores, argv>>

\* if not self.token: password = self.get_password()
GetPassword ==
    /\ pc = "password"
    /\ prompts' = prompts + 1
    /\ pc' = "get_token"
    /\ UNCHANGED <<now, files, stored, runs, args, token, lookup, authCalls,
                   issued, claims, suitesRun, returned, exit_code, cache_dir,
                   suite, results, authVars, raceVars, kcVars, team_stores, argv>>

\* self.token = self.get_token(...); if not self.token: return False
\* get_token posts the request, and on HTTP 200 saves the token to the cache
\* and returns it; on any other outcome, and on an exception inside its try
\* block, it returns None.
GetToken(resp, io) ==
    /\ pc = "get_token"
    /\ authCalls' = authCalls + 1
    /\ LET ok           == StatusOk(resp)
           access_token == resp.access_token
           expires_in   == IF resp.has_expires_in THEN resp.expires_in
                           ELSE DefaultExpiresIn
           wrote        == OpenOutcome(cache_dir, io)
           result       == IF ok /\ SaveTokenToCacheRaises(wrote) THEN PyNone
                           ELSE GetTokenResult(resp)
       IN  /\ issued' = [called |-> TRUE, at |-> now, kind |-> resp.kind,
                         access_token |-> result,
                         expires_in |-> IF ok THEN expires_in ELSE 0,
                         io |-> IF ok THEN wrote ELSE "none",
                         response_token |-> IF ok THEN access_token
                                            ELSE PyNone]
           /\ files' = IF ok
                       THEN [files EXCEPT ![CachePath] =
                               SaveTokenToCache(@, access_token, expires_in,
                                                now, wrote)]
                       ELSE files
           /\ stored' = IF ok /\ wrote = "ok"
                        THEN [stored EXCEPT ![CachePath] =
                                [set |-> TRUE, url |-> args.keycloak_url,
                                 token |-> access_token,
                                 expires_in |-> expires_in, at |-> now]]
                        ELSE IF ok /\ wrote = "dump_fails"
                        THEN [stored EXCEPT ![CachePath] = NoStore]
                        ELSE stored
           /\ token' = result
           /\ IF Proceeds(result)
              THEN /\ pc' = "client"
                   /\ UNCHANGED <<returned, exit_code>>
              ELSE /\ returned' = "False"
                   /\ exit_code' = 1
                   /\ pc' = "exited"
    /\ UNCHANGED <<now, runs, args, prompts, lookup, claims, suitesRun,
                   cache_dir, suite, results, authVars, raceVars, kcVars, team_stores, argv>>

\* self.initialize_openai_client(); claims = self.decode_token_claims(...);
\* if claims: ... claims.get(...), which raises unless claims is a dict.
ShowClaims ==
    /\ pc = "client"
    /\ \E c \in {DecodeTokenClaims(token)} :
       /\ claims' = [decoded |-> ~c.raised, kind |-> c.kind,
                     truthy |-> c.truthy]
       /\ IF c.raised \/ (c.truthy /\ c.kind # "obj")
          THEN /\ returned' = "raised"
               /\ exit_code' = 1
               /\ pc' = "exited"
          ELSE /\ pc' = "tests"
               /\ UNCHANGED <<returned, exit_code>>
    /\ UNCHANGED <<now, files, stored, runs, args, token, prompts, authCalls,
                   lookup, issued, suitesRun, cache_dir, suite, results,
                   authVars, raceVars, kcVars, team_stores, argv>>

(***************************************************************************)
(* The test suites of run_demo.  Each gateway call has an outcome chosen   *)
(* by the gateway: "ok", "found" (a listing that holds the team store),    *)
(* "last_error" (a result object whose last_error is set), "403" (the SDK  *)
(* raises an error that mentions 403/Forbidden) or "error" (the SDK raises *)
(* any other error).                                                       *)
(***************************************************************************)
GatewayOutcomes == {"ok", "found", "last_error", "403", "error"}

Granted == {"ok"}

ModelCalls ==
    {"models.list", "chat.llama-3-2-3b", "chat.gpt-4o-mini", "chat.gpt-4o"}

FileCalls == {"files.create", "files.list"}

VectorCalls ==
    {"vector_stores.create", "vector_stores.files.create",
     "vector_stores.delete"}

CleanupCalls == {"files.delete"}

McpCalls == {"responses.create"}

TeamCalls ==
    {"team.vector_stores.list", "team.vector_stores.create",
     "access.vector_stores.list"}

\* The outcomes a call can have: only a listing of vector stores can hold
\* the team store, and only a result handed to _handle_operation is looked
\* at for last_error (call_mcp hands back None).
CallOutcomes(c) ==
    {"ok", "403", "error"}
    \cup (IF c \in {"team.vector_stores.list", "access.vector_stores.list"}
          THEN {"found"} ELSE {})
    \cup (IF c \in {"files.list", "vector_stores.files.create",
                    "vector_stores.delete", "files.delete"}
          THEN {"last_error"} ELSE {})

\* The gateways that answer the given calls with outcomes in O.
Gateways(calls, O) ==
    {gw \in [calls -> O] : \A c \in calls : gw[c] \in CallOutcomes(c)}

Exception(o) == o \in {"403", "error"}

\* _handle_operation without its except clause.
HandleOperationNoExcept(o) ==
    IF Exception(o) THEN [raised |-> TRUE, ok |-> FALSE]
    ELSE [raised |-> FALSE, ok |-> o # "last_error"]

\* _handle_operation: False when the result carries last_error or when the
\* operation raises (reported as access denied or as an error), else True.
HandleOperation(o) ==
    IF Exception(o) THEN [raised |-> FALSE, ok |-> FALSE]
    ELSE [raised |-> FALSE, ok |-> o # "last_error"]

\* try: <call>; ... True  except Exception: ... False
\* (list_models, test_model, the upload and the vector store creation)
Guarded(o) == [raised |-> FALSE, ok |-> ~Exception(o)]

\* What a suite did: the calls it made with the outcome of each, whether an
\* exception escaped, test_file_id and team_access_results afterwards.
SuiteOutcome(made, fid, team) ==
    [calls  |-> DOMAIN made,
     failed |-> {c \in DOMAIN made : ~made[c].ok},
     raised |-> \E c \in DOMAIN made : made[c].raised,
     file_id |-> fid,
     team_access |-> team]

\* self.list_models(); model_results = self.test_models()
TestModels(gw) ==
    SuiteOutcome([c \in ModelCalls |-> Guarded(gw[c])],
                 results.file_id, results.team_access)

\* test_file_operations: the upload sets file_id, then the listing.
TestFileOperations(gw) ==
    SuiteOutcome([c \in FileCalls |->
                    IF c = "files.create" THEN Guarded(gw[c])
                    ELSE HandleOperation(gw[c])],
                 Guarded(gw["files.create"]).ok, results.team_access)

\* test_vector_store_operations: create; attach the test file if the store
\* was created and a file was uploaded; delete the store if it was created.
\* The store is deleted only after a successful attachment.
VectorCallsMadeDeleteAfterAttach(gw, file_id) ==
    {"vector_stores.create"}
    \cup (IF Guarded(gw["vector_stores.create"]).ok /\ file_id
          THEN {"vector_stores.files.create"} ELSE {})
    \cup (IF /\ Guarded(gw["vector_stores.create"]).ok
              /\ file_id
              /\ HandleOperation(gw["vector_stores.files.create"]).ok
          THEN {"vector_stores.delete"} ELSE {})

VectorCallsMade(gw, file_id) ==
    {"vector_stores.create"}
    \cup (IF Guarded(gw["vector_stores.create"]).ok /\ file_id
          THEN {"vector_stores.files.create"} ELSE {})
    \cup (IF Guarded(gw["vector_stores.create"]).ok
          THEN {"vector_stores.delete"} ELSE {})

TestVectorStoreOperations(gw) ==
    SuiteOutcome([c \in VectorCallsMade(gw, results.file_id) |->
                    IF c = "vector_stores.create" THEN Guarded(gw[c])
                    ELSE HandleOperation(gw[c])],
                 results.file_id, results.team_access)

\* cleanup_test_file: skipped without a file id.
CleanupTestFile(gw) ==
    SuiteOutcome([c \in (IF results.file_id THEN CleanupCalls ELSE {}) |->
                    HandleOperation(gw[c])],
                 results.file_id, results.team_access)

\* test_responses_with_mcp
TestResponsesWithMcp(gw) ==
    SuiteOutcome([c \in McpCalls |-> HandleOperation(gw[c])],
                 results.file_id, results.team_access)

\* create_team_vector_store: only for "developer"; the store is created
\* unless the listing shows it (a failed listing is only reported).
TeamCallsMade(gw, username) ==
    (IF username = "developer" THEN {"team.vector_stores.list"} ELSE {})
    \cup (IF username = "developer" /\ gw["team.vector_stores.list"] # "found"
          THEN {"team.vector_stores.create"} ELSE {})
    \cup {"access.vector_stores.list"}

\* test_access_to_team_vector_store returns its results, with can_access
\* and store_exists set when the listing holds the team store, except after
\* a 403, where the function ends without a return statement.
TeamAccessReturn(o) ==
    IF o = "403" THEN "None"
    ELSE IF o = "found" THEN "can_access"
    ELSE "no_access"

TestTeam(gw) ==
    SuiteOutcome([c \in TeamCallsMade(gw, args.username) |-> Guarded(gw[c])],
                 results.file_id,
                 TeamAccessReturn(gw["access.vector_stores.list"]))

\* The gateway calls in the order of their statements within a suite.
StatementOrder ==
    <<"models.list", "chat.llama-3-2-3b", "chat.gpt-4o-mini", "chat.gpt-4o",
      "files.create", "files.list",
      "vector_stores.create", "vector_stores.files.create",
      "vector_stores.delete",
      "files.delete",
      "responses.create",
      "team.vector_stores.list", "team.vector_stores.create",
      "access.vector_stores.list">>

RECURSIVE InOrderFrom(_, _)
InOrderFrom(calls, i) ==
    IF i > Len(StatementOrder) THEN <<>>
    ELSE (IF StatementOrder[i] \in calls THEN <<StatementOrder[i]>> ELSE <<>>)
         \o InOrderFrom(calls, i + 1)

\* The calls a suite made, in the order it made them.
InOrder(calls) == InOrderFrom(calls, 1)

\* vector_stores.create(name="vs_mlteam_team") went through: one more store
\* of that name on the gateway.
Created(r) ==
    IF "team.vector_stores.create" \in (r.calls \ r.failed) THEN 1 ELSE 0

\* What the gateway can answer to the two listings of the team suite: the
\* developer's own listing shows the team store iff one exists, any user's
\* listing can show it only if it exists by then; errors are always possible.
ListingAnswers(gw, username) ==
    /\ gw["team.vector_stores.list"] = "found" => team_stores > 0
    /\ gw["team.vector_stores.list"] = "ok" => team_stores = 0
    /\ gw["access.vector_stores.list"] = "found" =>
          \/ team_stores > 0
          \/ /\ "team.vector_stores.create" \in TeamCallsMade(gw, username)
             /\ Guarded(gw["team.vector_stores.create"]).ok

\* The suite is skipped: "if '<suite>' in tests_to_run" is false.
Skipped == SuiteOutcome(<<>>, results.file_id, results.team_access)

\* One "if '<name>' in tests_to_run: ..." statement of run_demo.
RunSuite(position, name, nextPosition, outcome) ==
    /\ pc = "tests"
    /\ suite = position
    /\ \E r \in {IF name \in args.tests_to_run THEN outcome ELSE Skipped} :
       /\ results' = [calls |-> results.calls \cup r.calls,
                      failed |-> results.failed \cup r.failed,
                      order |-> results.order \o InOrder(r.calls),
                      file_id |-> r.file_id,
                      team_access |-> r.team_access]
       /\ suitesRun' = IF name \in args.tests_to_run
                       THEN suitesRun \cup {name} ELSE suitesRun
       /\ team_stores' = team_stores + Created(r)
       /\ IF r.raised
          THEN /\ returned' = "raised"
               /\ exit_code' = 1
               /\ pc' = "exited"
               /\ suite' = suite
          ELSE /\ suite' = nextPosition
               /\ UNCHANGED <<pc, returned, exit_code>>
    /\ UNCHANGED <<now, files, stored, runs, args, token, prompts, authCalls,
                   lookup, issued, claims, cache_dir, authVars, raceVars, kcVars, argv>>

ModelsSuite(gw) == RunSuite("models", "models", "files", TestModels(gw))

FilesSuite(gw) == RunSuite("files", "files", "vectors", TestFileOperations(gw))

VectorsSuite(gw) ==
    RunSuite("vectors", "vectors", "cleanup", TestVectorStoreOperations(gw))

CleanupSuite(gw) == RunSuite("cleanup", "files", "mcp", CleanupTestFile(gw))

McpSuite(gw) == RunSuite("mcp", "mcp", "team", TestResponsesWithMcp(gw))

TeamSuite(gw) ==
    /\ ListingAnswers(gw, args.username)
    /\ RunSuite("team", "team", "summary", TestTeam(gw))

\* self.print_summary(...); return True; sys.exit(0).
RunTests ==
    /\ pc = "tests"
    /\ suite = "summary"
    /\ returned' = "True"
    /\ exit_code' = 0
    /\ pc' = "exited"
    /\ UNCHANGED <<now, files, stored, runs, args, token, prompts, authCalls,
                   lookup, issued, claims, suitesRun, cache_dir, suite,
                   results, authVars, raceVars, kcVars, team_stores, argv>>

\* The test suites of one run, against a gateway whose outcomes are in O.
Suites(O) ==
    \/ \E gw \in Gateways(ModelCalls, O) : ModelsSuite(gw)
    \/ \E gw \in Gateways(FileCalls, O) : FilesSuite(gw)
    \/ \E gw \in Gateways(VectorCalls, O) : VectorsSuite(gw)
    \/ \E gw \in Gateways(CleanupCalls, O) : CleanupSuite(gw)
    \/ \E gw \in Gateways(McpCalls, O) : McpSuite(gw)
    \/ \E gw \in Gateways(TeamCalls, O) : TeamSuite(gw)
    \/ RunTests

\* Time passes: between runs and while the program waits for the password
\* (the other steps take no time at the clock's resolution).
Tick ==
    /\ pc \in {"idle", "exited", "password"}
    /\ \E t \in Times : t > now /\ now' = t
    /\ UNCHANGED <<files, stored, runs, pc, args, token, prompts, authCalls,
                   lookup, issued, claims, suitesRun, returned, exit_code,
                   cache_dir, suite, results, authVars, raceVars, kcVars, team_stores, argv>>

\* Something other than this program rewrites or removes a cache file.
Corrupt(p, c) ==
    /\ pc \in {"idle", "exited"}
    /\ cache_dir
    /\ files[p] # c
    /\ files' = [files EXCEPT ![p] = c]
    /\ stored' = [stored EXCEPT ![p] = NoStore]
    /\ UNCHANGED <<now, runs, pc, args, token, prompts, authCalls, lookup,
                   issued, claims, suitesRun, returned, exit_code, cache_dir,
                   suite, results, authVars, raceVars, kcVars, team_stores, argv>>

\* Something other than this program removes the cache directory (a cleaner
\* of ~/.cache, the user) while the run waits for the password.  Between runs
\* a removal is undone by the next constructor's mkdir.
RemoveDir ==
    /\ pc = "password"
    /\ cache_dir
    /\ cache_dir' = FALSE
    /\ files' = [p \in Paths |-> Absent]
    /\ stored' = [p \in Paths |-> NoStore]
    /\ UNCHANGED <<now, runs, pc, args, token, prompts, authCalls, lookup,
                   issued, claims, suitesRun, returned, exit_code, suite,
                   results, authVars, raceVars, kcVars, team_stores, argv>>

\* One authority (the default URL), every answer of the model.
Next ==
    \/ \E username \in Users, has_secret \in BOOLEAN, no_cache \in BOOLEAN,
          tests \in RunTestsArgs :
            Main(DefaultUrl, username, has_secret, no_cache, tests)
    \/ LoadStep
    \/ GetPassword
    \/ \E resp \in Responses, io \in IoOutcomes : GetToken(resp, io)
    \/ ShowClaims
    \/ Suites(Granted)
    \/ Tick
    \/ \E username \in Users, c \in MalformedContents :
            Corrupt(TokenCachePath(DefaultUrl, username), c)
    \/ RemoveDir

Spec == Init /\ [][Next]_vars

\* Several authorities over one cache directory.
NextKeys ==
    \/ \E url \in Urls, username \in Users, has_secret \in BOOLEAN,
          no_cache \in BOOLEAN, tests \in RunTestsArgs :
            Main(url, username, has_secret, no_cache, tests)
    \/ LoadStep
    \/ GetPassword
    \/ \E resp \in KeyResponses, io \in IoOutcomes : GetToken(resp, io)
    \/ ShowClaims
    \/ Suites(Granted)
    \/ Tick
    \/ \E p \in Paths : Corrupt(p, InvalidText)
    \/ RemoveDir

SpecKeys == Init /\ [][NextKeys]_vars

\* Two authorities with different cache files, and answers that differ in
\* token and lifetime: what a store and a lookup do to the cache directory.
StoreUrls == {DefaultUrl, "https://kc90810.example.com"}

StoreResponses ==
    {Ok200(PyStr(TokJwt), TRUE, DefaultExpiresIn),
     Ok200(PyStr(TokNumberClaims), TRUE, SafetyMargin)} \cup Failures

NextStore ==
    \/ \E url \in StoreUrls, username \in Users, no_cache \in BOOLEAN :
            Main(url, username, TRUE, no_cache, AllWord)
    \/ LoadStep
    \/ GetPassword
    \/ \E resp \in StoreResponses, io \in IoOutcomes : GetToken(resp, io)
    \/ ShowClaims
    \/ Suites(Granted)
    \/ Tick
    \/ \E p \in Paths : Corrupt(p, InvalidText)
    \/ RemoveDir

SpecStore == Init /\ [][NextStore]_vars

\* The command line: every --tests value of the model, with and without a
\* client secret and --no-cache, against an authority that issues one token
\* or fails and a file system that works.
NextArgs ==
    \/ \E username \in Users, has_secret \in BOOLEAN, no_cache \in BOOLEAN,
          tests \in TestsArgs :
            Main(DefaultUrl, username, has_secret, no_cache, tests)
    \/ LoadStep
    \/ GetPassword
    \/ \E resp \in KeyResponses : GetToken(resp, "ok")
    \/ ShowClaims
    \/ Suites(Granted)

SpecArgs == Init /\ [][NextArgs]_vars

(***************************************************************************)
(* decode_token_claims on its own: run_demo has resolved self.token to an  *)
(* arbitrary non-empty string and goes on to decode it.                    *)
(***************************************************************************)
MaxTokenLen == 5

DecodeChars == {".", "M", "Q", "e", "3", "0", "-"}

DecodeTokens ==
    {PyStr(q) : q \in UNION {[1..n -> DecodeChars] : n \in 1..MaxTokenLen}}
    \cup {PyStr(q) : q \in TokenStrings \ {<<>>}}

InitDecode ==
    /\ now = 0
    /\ files = [p \in Paths |-> Absent]
    /\ stored = [p \in Paths |-> NoStore]
    /\ runs = 1
    /\ pc = "client"
    /\ args = [keycloak_url |-> DefaultUrl, username |-> "alice",
               use_cache |-> FALSE, tests_to_run |-> AvailableTests]
    /\ token \in DecodeTokens
    /\ prompts = 1
    /\ authCalls = 1
    /\ lookup = NoLookup
    /\ issued = [called |-> TRUE, at |-> 0, kind |-> "ok",
                 access_token |-> token, expires_in |-> DefaultExpiresIn,
                 io |-> "open_fails", response_token |-> token]
    /\ claims = NoClaims
    /\ suitesRun = {}
    /\ returned = "none"
    /\ exit_code = -1
    /\ cache_dir = TRUE
    /\ suite = "models"
    /\ results = NoResults
    /\ argv = [has_secret |-> TRUE, tests |-> AllWord]
    /\ team_stores = 0
    /\ AuthIdle
    /\ RaceIdle
    /\ KcIdle

NextDecode == ShowClaims \/ Suites(Granted)

SpecDecode == InitDecode /\ [][NextDecode]_vars

(***************************************************************************)
(* Two runs at the same time on one cache file (the same authority and     *)
(* user), without locking.  The file is a text; json.dump writes it and    *)
(* json.load reads it.  An entry is shorter than the I/O buffer, so a      *)
(* store is open(cache_file, 'w'), which truncates the file, and one       *)
(* write at offset 0 when the file is closed; a lookup reads until a read  *)
(* returns nothing.  The runs happen within one tick of the clock.         *)
(***************************************************************************)
\* Runs started by each process.
MaxProcRuns == 2

\* The printable ASCII characters: Ascii[i] has the code 31 + i (the grave
\* accent, code 96, is spelled out).
Ascii ==
    <<" ", "!", "\"", "#", "$", "%", "&", "'", "(", ")", "*", "+",
       ",", "-", ".", "/", "0", "1", "2", "3", "4", "5", "6", "7",
       "8", "9", ":", ";", "<", "=", ">", "?", "@", "A", "B", "C",
       "D", "E", "F", "G", "H", "I", "J", "K", "L", "M", "N", "O",
       "P", "Q", "R", "S", "T", "U", "V", "W", "X", "Y", "Z", "[",
       "\\", "]", "^", "_", "grave", "a", "b", "c", "d", "e", "f", "g",
       "h", "i", "j", "k", "l", "m", "n", "o", "p", "q", "r", "s",
       "t", "u", "v", "w", "x", "y", "z", "{", "|", "}", "~">>

Ord(c) == 31 + CHOOSE i \in 1..Len(Ascii) : Ascii[i] = c

\* str.encode: the bytes of a text.
Encode(text) == [i \in 1..Len(text) |-> Ord(text[i])]

DigitChars == <<"0", "1", "2", "3", "4", "5", "6", "7", "8", "9">>

RECURSIVE Digits(_)
Digits(n) ==
    IF n < 10 THEN <<DigitChars[n + 1]>>
    ELSE Digits(n \div 10) \o <<DigitChars[(n % 10) + 1]>>

\* float.__repr__ of a whole number of seconds, as json.dump writes it.
FloatRepr(n) == Digits(n) \o <<".", "0">>

\* "<key>": with json.dump's default separators
JsonKey(name) == <<"\"">> \o name \o <<"\"", ":", " ">>

\* json.dump(cache_data, f) of {'access_token': ..., 'expires_at': ...,
\* 'cached_at': ...}; the tokens hold no character that needs an escape.
JsonDump(e) ==
    <<"{">>
    \o JsonKey(<<"a", "c", "c", "e", "s", "s", "_", "t", "o", "k", "e", "n">>)
    \o <<"\"">> \o e.token \o <<"\"", ",", " ">>
    \o JsonKey(<<"e", "x", "p", "i", "r", "e", "s", "_", "a", "t">>)
    \o FloatRepr(e.expires_at) \o <<",", " ">>
    \o JsonKey(<<"c", "a", "c", "h", "e", "d", "_", "a", "t">>)
    \o FloatRepr(e.cached_at) \o <<"}">>

\* The tokens and lifetimes the authority hands to the concurrent runs.
RaceTokens == {TokJwt, TokNumberClaims}

RaceLifetimes == {DefaultExpiresIn, 3600}

RaceEntries ==
    {[token |-> t, expires_at |-> e, cached_at |-> 0] :
        t \in RaceTokens, e \in RaceLifetimes}

DumpOf == [e \in RaceEntries |-> JsonDump(e)]

\* A JSON object that json.load accepts and no store of the model wrote.
OtherObject == Object(FStr(<<"?">>), FStr(<<"?">>), FStr(<<"?">>))

\* The fields of a text that is a JSON object.
ObjectFields(text) ==
    IF \E e \in RaceEntries : DumpOf[e] = text
    THEN LET e == CHOOSE x \in RaceEntries : DumpOf[x] = text
         IN  Object(FStr(e.token), FNum(e.expires_at), FNum(e.cached_at))
    ELSE OtherObject

\* cache_data = json.load(f) on the text read from the file.
LoadedFile(text, v) ==
    IF ~v.ok THEN InvalidText
    ELSE IF v.kind # "obj" THEN NonObject
    ELSE ObjectFields(text)

JsonLoadFile(text) == LoadedFile(text, JsonLoads(Encode(text)))

\* O_APPEND: the data goes to the end of the file.
FileWriteAppending(text, data) == text \o data

\* write(2) at offset 0 of a descriptor opened with 'w': the data replaces
\* the first Len(data) characters and what lies beyond them stays.
FileWrite(text, data) == data \o SubSeq(text, Len(data) + 1, Len(text))

\* A run starts: with --no-cache it goes to the token request; otherwise
\* load_cached_token returns None when the file does not exist, else opens it.
RaceMain(p, no_cache) ==
    /\ proc[p].pc \in {"idle", "done"}
    /\ proc[p].runs < MaxProcRuns
    /\ proc' = [proc EXCEPT ![p] =
                  [pc |-> IF no_cache \/ ~disk.exists THEN "request"
                          ELSE "reading",
                   runs |-> @.runs + 1,
                   buf |-> <<>>,
                   entry |-> NoEntry,
                   read |-> IF no_cache THEN NoRead
                            ELSE IF ~disk.exists
                            THEN [called |-> TRUE, file |-> Absent,
                                  raised |-> FALSE, result |-> PyNone]
                            ELSE NoRead]]
    /\ UNCHANGED <<disk, written, last_written, demoVars, authVars, kcVars>>

\* The end of load_cached_token on the text that was read.
RaceLookup(p, file, r) ==
    proc' = [proc EXCEPT ![p].read =
                            [called |-> TRUE, file |-> file,
                             raised |-> r.raised, result |-> r.result],
                         ![p].pc = IF r.raised \/ Truthy(r.result)
                                   THEN "done" ELSE "request"]

\* One read of json.load's f.read(): what the file holds beyond the
\* characters read so far; a read that returns nothing is the end of the
\* file, and the text read is parsed and checked.
RaceRead(p) ==
    /\ proc[p].pc = "reading"
    /\ \E chunk \in {SubSeq(disk.text, Len(proc[p].buf) + 1, Len(disk.text))} :
          IF chunk # <<>>
          THEN proc' = [proc EXCEPT ![p].buf = @ \o chunk]
          ELSE \E file \in {JsonLoadFile(proc[p].buf)} :
                  RaceLookup(p, file, LoadCachedToken(file, now))
    /\ UNCHANGED <<disk, written, last_written, demoVars, authVars, kcVars>>

\* get_token is answered with 200 and save_token_to_cache opens the file for
\* writing: the file exists and is empty from here on.
RaceOpen(p, tok, expires_in) ==
    /\ proc[p].pc = "request"
    /\ disk' = [exists |-> TRUE, text |-> <<>>]
    /\ proc' = [proc EXCEPT ![p].entry =
                              [token |-> tok, expires_at |-> now + expires_in,
                               cached_at |-> now],
                            ![p].pc = "opened"]
    /\ UNCHANGED <<written, last_written, demoVars, authVars, kcVars>>

\* The token request fails: no store, the run ends.
RaceRequestFails(p) ==
    /\ proc[p].pc = "request"
    /\ proc' = [proc EXCEPT ![p].pc = "done"]
    /\ UNCHANGED <<disk, written, last_written, demoVars, authVars, kcVars>>

\* The end of "with open(...) as f: json.dump(cache_data, f)": the entry is
\* written and the file closed.
RaceWrite(p) ==
    /\ proc[p].pc = "opened"
    /\ disk' = [disk EXCEPT !.text = FileWrite(@, DumpOf[proc[p].entry])]
    /\ written' = written \cup {proc[p].entry}
    /\ last_written' = [set |-> TRUE, entry |-> proc[p].entry]
    /\ proc' = [proc EXCEPT ![p].pc = "done"]
    /\ UNCHANGED <<demoVars, authVars, kcVars>>

NextRace ==
    \/ \E p \in Procs, no_cache \in BOOLEAN : RaceMain(p, no_cache)
    \/ \E p \in Procs : RaceRead(p)
    \/ \E p \in Procs, tok \in RaceTokens, expires_in \in RaceLifetimes :
            RaceOpen(p, tok, expires_in)
    \/ \E p \in Procs : RaceRequestFails(p)
    \/ \E p \in Procs : RaceWrite(p)

SpecRace == Init /\ [][NextRace]_vars

(***************************************************************************)
(* auth-demo.py: the unauthenticated request, then for each demo user one  *)
(* token request and the user's test cases, then the summary.              *)
(***************************************************************************)
\* self.users, with the role of each.
DemoUsers ==
    <<[username |-> "admin-user", role |-> "admin"],
      [username |-> "datascience-user", role |-> "datascience"],
      [username |-> "basic-user", role |-> "basic"]>>

\* self.test_cases: expected_success of the five test cases of each role.
ExpectedSuccess ==
    [admin       |-> <<TRUE, TRUE, TRUE, TRUE, TRUE>>,
     datascience |-> <<TRUE, TRUE, TRUE, FALSE, TRUE>>,
     basic       |-> <<TRUE, TRUE, FALSE, FALSE, TRUE>>]

\* What the gateway may answer to the unauthenticated request and to the
\* request of a test case.
GatewayResponses == {Http(200), Http(401), Http(403), ConnectionFailed}

EndpointResponses == {Http(200), Http(403), ConnectionFailed}

\* What the authority may answer to a token request of auth-demo.py.
AuthResponses ==
    {Ok200(PyStr(TokJwt), FALSE, 0), Ok200(PyStr(TokNumberClaims), FALSE, 0),
     Ok200(PyNone, FALSE, 0)} \cup Failures

\* claims = self.decode_token_claims(token) for each answer of the authority.
AuthClaims ==
    [resp \in AuthResponses |->
        DecodeTokenClaims(IF resp.kind = "ok" THEN resp.access_token
                          ELSE PyNone)]

\* test_unauthenticated_access: success = response.status_code == 401;
\* an exception is reported and gives False.
TestUnauthenticatedAccess(resp) == ~resp.raised /\ resp.status_code = 401

\* get_user_token: the access_token of a 200 response, else None.
GetUserToken(resp) == IF resp.kind = "ok" THEN resp.access_token ELSE PyNone

\* test_endpoint: success = response.status_code < 400 and the return value
\* success == test_case.expected_success; an exception gives False.
TestEndpoint(resp, expected_success) ==
    ~resp.raised /\ ((resp.status_code < 400) = expected_success)

\* tests_passed of run_user_tests for the answers of the five test cases.
TestsPassed(role, answers) ==
    Cardinality({i \in 1..5 : TestEndpoint(answers[i],
                                            ExpectedSuccess[role][i])})

\* The result of run_user_tests without a token.
NoTokenResult == [success |-> FALSE, tests_passed |-> 0, tests_total |-> 0]

UserResult(passed) ==
    [success |-> passed = 5, tests_passed |-> passed, tests_total |-> 5]

\* overall_success = all(r["success"] for r in all_results): the outcome of
\* the unauthenticated test is not part of it.
OverallSuccess(all_results) ==
    \A i \in 1..Len(all_results) : all_results[i].success

\* main() of auth-demo.py up to run_demo's first request.
AuthMain(has_secret) ==
    /\ ad_pc \in {"idle", "exited"}
    /\ ad_unauth' = NoUnauth
    /\ ad_user' = 1
    /\ ad_requests' = <<0, 0, 0>>
    /\ ad_results' = <<>>
    /\ ad_returned' = "none"
    /\ ad_last' = NoUserTests
    /\ IF has_secret
       THEN ad_pc' = "unauth" /\ ad_exit' = -1
       ELSE ad_pc' = "exited" /\ ad_exit' = 1
    /\ UNCHANGED <<demoVars, raceVars, kcVars>>

\* if not self.test_unauthenticated_access(): print a warning
AuthUnauthenticated(resp) ==
    /\ ad_pc = "unauth"
    /\ ad_unauth' = [called |-> TRUE, response |-> resp,
                     success |-> TestUnauthenticatedAccess(resp)]
    /\ ad_pc' = "users"
    /\ UNCHANGED <<demoVars, raceVars, kcVars, ad_user, ad_requests, ad_results,
                   ad_returned, ad_exit, ad_last>>

\* result = self.run_user_tests(user) for the next user of self.users, up
\* to its loop over the test cases: one token request; without a token the
\* user is recorded as failed and its tests are skipped; with one the claims
\* are shown (claims.get raises unless claims is a dict).
AuthRunUserTests(resp) ==
    /\ ad_pc = "users"
    /\ ad_requests' = [ad_requests EXCEPT ![ad_user] = @ + 1]
    /\ ad_last' = [user |-> ad_user, token |-> Truthy(GetUserToken(resp)),
                   answers |-> <<>>]
    /\ \E c \in {AuthClaims[resp]} :
         IF ~Truthy(GetUserToken(resp))
         THEN /\ ad_results' = Append(ad_results, NoTokenResult)
              /\ ad_user' = ad_user + 1
              /\ ad_pc' = IF ad_user = Len(DemoUsers) THEN "summary"
                          ELSE "users"
              /\ UNCHANGED <<ad_returned, ad_exit>>
         ELSE IF c.truthy /\ c.kind # "obj"
         THEN /\ ad_returned' = "raised"
              /\ ad_exit' = 1
              /\ ad_pc' = "exited"
              /\ UNCHANGED <<ad_user, ad_results>>
         ELSE /\ ad_pc' = "cases"
              /\ UNCHANGED <<ad_user, ad_results, ad_returned, ad_exit>>
    /\ UNCHANGED <<demoVars, raceVars, kcVars, ad_unauth>>

\* One iteration of "for test_case in test_cases: if self.test_endpoint(...)":
\* the request of the next test case is answered; after the last one
\* run_user_tests returns its result and run_demo appends it.
AuthTestEndpoint(resp) ==
    /\ ad_pc = "cases"
    /\ \E answers \in {Append(ad_last.answers, resp)} :
         /\ ad_last' = [ad_last EXCEPT !.answers = answers]
         /\ IF Len(answers) < 5
            THEN UNCHANGED <<ad_pc, ad_user, ad_results>>
            ELSE /\ ad_results' =
                       Append(ad_results,
                              UserResult(TestsPassed(DemoUsers[ad_user].role,
                                                     answers)))
                 /\ ad_user' = ad_user + 1
                 /\ ad_pc' = IF ad_user = Len(DemoUsers) THEN "summary"
                             ELSE "users"
    /\ UNCHANGED <<demoVars, raceVars, kcVars, ad_unauth, ad_requests, ad_returned,
                   ad_exit>>

\* The summary, return overall_success and sys.exit(0 if success else 1).
AuthSummary ==
    /\ ad_pc = "summary"
    /\ ad_returned' = IF OverallSuccess(ad_results)
                      THEN "True" ELSE "False"
    /\ ad_exit' = IF OverallSuccess(ad_results)
                  THEN 0 ELSE 1
    /\ ad_pc' = "exited"
    /\ UNCHANGED <<demoVars, raceVars, kcVars, ad_unauth, ad_user, ad_requests,
                   ad_results, ad_last>>

NextAuthDemo ==
    \/ \E has_secret \in BOOLEAN : AuthMain(has_secret)
    \/ \E resp \in GatewayResponses : AuthUnauthenticated(resp)
    \/ \E resp \in AuthResponses : AuthRunUserTests(resp)
    \/ \E resp \in EndpointResponses : AuthTestEndpoint(resp)
    \/ AuthSummary

SpecAuthDemo == Init /\ [][NextAuthDemo]_vars

(***************************************************************************)
(* run_demo's test suites against a gateway that grants, denies or fails   *)
(* each call: the run has resolved its token and shown the claims.         *)
(***************************************************************************)
\* A --tests value that names the tests of the set S, in the order of the
\* help text.
TestOrder == <<"models", "files", "vectors", "mcp", "team">>

RECURSIVE JoinTests(_, _, _)
JoinTests(S, i, acc) ==
    IF i > Len(TestOrder) THEN acc
    ELSE IF TestOrder[i] \notin S THEN JoinTests(S, i + 1, acc)
    ELSE JoinTests(S, i + 1,
                   IF acc = <<>> THEN TestWord[TestOrder[i]]
                   ELSE acc \o <<",">> \o TestWord[TestOrder[i]])

TestsArg(S) == JoinTests(S, 1, <<>>)

GatewayUsers == {"alice", "developer"}

InitGateway ==
    /\ now = 0
    /\ files = [p \in Paths |-> Absent]
    /\ stored = [p \in Paths |-> NoStore]
    /\ runs = 1
    /\ pc = "tests"
    /\ \E username \in GatewayUsers, tests \in SUBSET AvailableTests :
          /\ tests # {}
          /\ args = [keycloak_url |-> DefaultUrl, username |-> username,
                     use_cache |-> FALSE,
                     tests_to_run |-> TestsToRun(TestsArg(tests))]
          /\ argv = [has_secret |-> TRUE, tests |-> TestsArg(tests)]
    /\ token = PyStr(TokJwt)
    /\ prompts = 1
    /\ authCalls = 1
    /\ lookup = NoLookup
    /\ issued = [called |-> TRUE, at |-> 0, kind |-> "ok",
                 access_token |-> token, expires_in |-> DefaultExpiresIn,
                 io |-> "open_fails", response_token |-> token]
    /\ claims = [decoded |-> TRUE, kind |-> "obj", truthy |-> TRUE]
    /\ suitesRun = {}
    /\ returned = "none"
    /\ exit_code = -1
    /\ cache_dir = TRUE
    /\ suite = "models"
    /\ results = NoResults
    /\ team_stores \in {0, 1}
    /\ AuthIdle
    /\ RaceIdle
    /\ KcIdle

NextGateway == Suites(GatewayOutcomes)

SpecGateway == InitGateway /\ [][NextGateway]_vars

\* Runs of the team suite one after the other against one gateway, by the
\* developer and by another user: as in InitGateway each run has its token
\* and stands before its test suites.
TeamNextRun(username) ==
    /\ pc = "exited"
    /\ runs < MaxRuns
    /\ runs' = runs + 1
    /\ args' = [args EXCEPT !.username = username]
    /\ pc' = "tests"
    /\ suite' = "models"
    /\ results' = NoResults
    /\ suitesRun' = {}
    /\ returned' = "none"
    /\ exit_code' = -1
    /\ UNCHANGED <<now, files, stored, token, prompts, authCalls, lookup,
                   issued, claims, cache_dir, argv, team_stores, authVars,
                   raceVars, kcVars>>

InitTeam ==
    /\ InitGateway
    /\ args.tests_to_run = {"vectors", "team"}
    /\ team_stores = 0

NextTeam ==
    \/ Suites(GatewayOutcomes)
    \/ \E username \in GatewayUsers : TeamNextRun(username)

SpecTeam == InitTeam /\ [][NextTeam]_vars

(***************************************************************************)
(* setup-keycloak.py: KeycloakSetup.setup_all requests the admin token and *)
(* then creates the realm, the client, the roles, the groups, the protocol *)
(* mappers and the users, each with POST requests whose status codes are   *)
(* the inputs of the model.                                                *)
(***************************************************************************)

\* The statements of setup_all's try block up to create_users, in the order
\* of the source.
KcSteps ==
    <<"get_admin_token", "create_realm", "create_client", "create_roles",
      "create_groups", "create_protocol_mappers", "create_users">>

\* requests.post / requests.get raised instead of returning a response.
RequestRaised == 0

\* What a POST is answered with: created, exists already, any other status,
\* or no response at all.
KcAnswers == {201, 409, 500, RequestRaised}

\* The answers to the token request: a token, an empty access_token, a body
\* without the key access_token, a status other than 200, no response.
KcTokenResponses == {"token", "empty", "no_key", "status", "raised"}

\* get_admin_token: raises on a status other than 200, on a body without
\* access_token and when the request raises; else returns the access_token.
GetAdminToken(resp) ==
    IF resp \in {"token", "empty"} THEN resp ELSE "raised"

\* The branches "status_code == 201" and "status_code == 409" taken as one:
\* only the created branch counts.
CreateSucceededOnlyCreated(status) == status = 201

\* The branches "status_code == 201" and "status_code == 409" of every
\* create_* method: neither fails the step.
CreateSucceeded(status) == status = 201 \/ status = 409

\* The loop of create_roles, create_groups and create_protocol_mappers:
\* one POST for each item, a failed one sets success to False and the loop
\* goes on; a request that raises ends the method.
RECURSIVE CreateEach(_, _)
CreateEach(answers, success) ==
    IF answers = <<>> THEN (IF success THEN "True" ELSE "False")
    ELSE IF Head(answers) = RequestRaised THEN "raised"
    ELSE CreateEach(Tail(answers),
                    success /\ CreateSucceeded(Head(answers)))

\* create_realm and create_client after the headers: one POST, True on 201
\* and on 409, False otherwise.
CreateOne(status) == CreateEach(<<status>>, TRUE)

\* create_protocol_mappers: False when get_client_uuid found no client,
\* else one POST for each of the two mappers.
CreateProtocolMappers(uuid, answers) ==
    IF uuid = "raised" THEN "raised"
    ELSE IF uuid = "missing" THEN "False"
    ELSE CreateEach(answers, TRUE)

\* create_users: one POST for each user; after a 201 the user id, the roles
\* and the groups are requested, with results that are ignored unless a
\* request raises.
RECURSIVE CreateUsers(_, _, _)
CreateUsers(answers, assign_raises, success) ==
    IF answers = <<>> THEN (IF success THEN "True" ELSE "False")
    ELSE IF Head(answers) = RequestRaised THEN "raised"
    ELSE IF Head(answers) = 201 /\ assign_raises THEN "raised"
    ELSE CreateUsers(Tail(answers), assign_raises,
                     success /\ CreateSucceeded(Head(answers)))

\* get_client_secret: None without a client uuid or on a status other than
\* 200, the secret on 200; a body without the key value raises.
GetClientSecret(uuid, answer) ==
    IF uuid = "raised" THEN "raised"
    ELSE IF uuid = "missing" THEN "None"
    ELSE IF answer \in {"raised", "no_value"} THEN "raised"
    ELSE IF answer = "value" THEN "secret"
    ELSE "None"

\* Every POST of the step was answered with 409: what the step creates was
\* there already.
AllExist(answers) ==
    answers # <<>> /\ \A i \in DOMAIN answers : answers[i] = 409

\* setup_all returns and main exits with status 0 on True, 1 on False.
KcReturn(value) ==
    /\ kc_pc' = "done"
    /\ kc_returned' = value
    /\ kc_exit' = IF value = "True" THEN 0 ELSE 1

\* "if not self.create_...(): return False", and the except clause for a
\* step that raised; otherwise the next statement.
KcAfterStep(step, result, all_exist, next) ==
    /\ kc_log' = Append(kc_log, [step |-> step, result |-> result,
                                 all_exist |-> all_exist])
    /\ IF result = "True"
       THEN kc_pc' = next /\ UNCHANGED <<kc_returned, kc_exit>>
       ELSE KcReturn("False")

\* main: a KeycloakSetup is constructed and setup_all called.
KcMain ==
    /\ kc_pc \in {"idle", "done"}
    /\ kc_pc' = "get_admin_token"
    /\ kc_admin_token' = "None"
    /\ kc_log' = <<>>
    /\ kc_secret' = "none"
    /\ kc_returned' = "none"
    /\ kc_exit' = -1
    /\ UNCHANGED <<demoVars, authVars, raceVars>>

\* self.admin_token = self.get_admin_token(), inside the try block.
KcGetAdminToken(resp) ==
    /\ kc_pc = "get_admin_token"
    /\ LET r == GetAdminToken(resp) IN
          /\ kc_log' = Append(kc_log, [step |-> "get_admin_token",
                                       result |-> r, all_exist |-> FALSE])
          /\ IF r = "raised"
             THEN KcReturn("False") /\ UNCHANGED kc_admin_token
             ELSE /\ kc_pc' = "create_realm"
                  /\ kc_admin_token' = r
                  /\ UNCHANGED <<kc_returned, kc_exit>>
    /\ UNCHANGED <<kc_secret, demoVars, authVars, raceVars>>

\* create_realm: an admin token that is not truthy is requested again, then
\* the realm is posted.
KcCreateRealm(resp, status) ==
    /\ kc_pc = "create_realm"
    /\ LET again == kc_admin_token # "token"
           r     == IF again THEN GetAdminToken(resp) ELSE kc_admin_token
       IN  /\ kc_admin_token' = IF r = "raised" THEN kc_admin_token ELSE r
           /\ KcAfterStep("create_realm",
                          IF r = "raised" THEN "raised" ELSE CreateOne(status),
                          r # "raised" /\ AllExist(<<status>>),
                          "create_client")
    /\ UNCHANGED <<kc_secret, demoVars, authVars, raceVars>>

KcCreateClient(status) ==
    /\ kc_pc = "create_client"
    /\ KcAfterStep("create_client", CreateOne(status), AllExist(<<status>>),
                   "create_roles")
    /\ UNCHANGED <<kc_admin_token, kc_secret, demoVars, authVars, raceVars>>

KcCreateRoles(answers) ==
    /\ kc_pc = "create_roles"
    /\ KcAfterStep("create_roles", CreateEach(answers, TRUE),
                   AllExist(answers), "create_groups")
    /\ UNCHANGED <<kc_admin_token, kc_secret, demoVars, authVars, raceVars>>

KcCreateGroups(answers) ==
    /\ kc_pc = "create_groups"
    /\ KcAfterStep("create_groups", CreateEach(answers, TRUE),
                   AllExist(answers), "create_protocol_mappers")
    /\ UNCHANGED <<kc_admin_token, kc_secret, demoVars, authVars, raceVars>>

KcCreateProtocolMappers(uuid, answers) ==
    /\ kc_pc = "create_protocol_mappers"
    /\ KcAfterStep("create_protocol_mappers",
                   CreateProtocolMappers(uuid, answers),
                   uuid = "found" /\ AllExist(answers), "create_users")
    /\ UNCHANGED <<kc_admin_token, kc_secret, demoVars, authVars, raceVars>>

KcCreateUsers(answers, assign_raises) ==
    /\ kc_pc = "create_users"
    /\ KcAfterStep("create_users", CreateUsers(answers, assign_raises, TRUE),
                   AllExist(answers), "get_client_secret")
    /\ UNCHANGED <<kc_admin_token, kc_secret, demoVars, authVars, raceVars>>

\* The end of the try block: the client secret is requested and shown when
\* there is one, and setup_all returns True; the except clause returns
\* False when the request raised.
KcGetClientSecret(uuid, answer) ==
    /\ kc_pc = "get_client_secret"
    /\ kc_secret' = GetClientSecret(uuid, answer)
    /\ KcReturn(IF kc_secret' = "raised" THEN "False" ELSE "True")
    /\ UNCHANGED <<kc_admin_token, kc_log, demoVars, authVars, raceVars>>

\* The answers to the n POST requests of one step.
AnswersOf(n) == [1..n -> KcAnswers]

ClientLookups == {"found", "missing", "raised"}

NextKeycloak ==
    \/ KcMain
    \/ \E resp \in KcTokenResponses : KcGetAdminToken(resp)
    \/ \E resp \in KcTokenResponses, status \in KcAnswers :
            KcCreateRealm(resp, status)
    \/ \E status \in KcAnswers : KcCreateClient(status)
    \/ \E answers \in AnswersOf(3) : KcCreateRoles(answers)
    \/ \E answers \in AnswersOf(3) : KcCreateGroups(answers)
    \/ \E uuid \in ClientLookups, answers \in AnswersOf(2) :
            KcCreateProtocolMappers(uuid, answers)
    \/ \E answers \in AnswersOf(5), assign_raises \in BOOLEAN :
            KcCreateUsers(answers, assign_raises)
    \/ \E uuid \in ClientLookups,
          answer \in {"value", "no_value", "status", "raised"} :
            KcGetClientSecret(uuid, answer)

SpecKeycloak == Init /\ [][NextKeycloak]_vars

(***************************************************************************)
(* The token claim envelope as documented: three dot-separated segments,   *)
(* base64url-encoded, the middle one a JSON object with the claims.        *)
(***************************************************************************)
\* base64.urlsafe_b64decode: '-' and '_' stand for '+' and '/'.
UrlSafeB64Decode(q) ==
    B64Decode([i \in 1..Len(q) |->
                 IF q[i] = "-" THEN "+" ELSE IF q[i] = "_" THEN "/" ELSE q[i]])

NonEmptyObject(v) == v.ok /\ v.kind = "obj" /\ v.truthy

EnvelopePayload(d) == d.ok /\ NonEmptyObject(JsonLoads(d.bytes))

EnvelopeParts(parts) ==
    /\ Len(parts) = 3
    /\ EnvelopePayload(
          UrlSafeB64Decode(parts[2] \o Pad(4 - (Len(parts[2]) % 4))))

WellFormedEnvelope(tok) == tok.t = "str" /\ EnvelopeParts(SplitDots(tok.s))

\* The lookup of this run read an entry that a store wrote in full and that
\* nothing has touched since.
LookupOfStored == lookup.called /\ lookup.stored.set

\* End of the validity window of the entry the lookup read.
WindowEnd == lookup.stored.at + lookup.stored.expires_in - SafetyMargin

(***************************************************************************)
(* Claims.                                                                 *)
(***************************************************************************)

\* C1: a lookup of a well-formed token stored with expires_in = E at time
\* issued_at, with no store in between, returns the token while
\* now < issued_at + E - 60 and returns none once now >= issued_at + E - 60.
C1_LookupWithinWindow ==
    (LookupOfStored /\ WellFormedEnvelope(lookup.stored.token)) =>
        /\ lookup.at < WindowEnd => lookup.result = lookup.stored.token
        /\ lookup.at >= WindowEnd => lookup.result = PyNone

\* C2: after a resolve stored alice's well-formed token with expires_in = 300,
\* a resolve within 4 minutes makes no authority call, and a resolve after
\* 5 minutes makes exactly one.
C2_EndToEndAlice ==
    (/\ LookupOfStored
     /\ args.username = "alice"
     /\ args.use_cache
     /\ lookup.stored.expires_in = 300
     /\ WellFormedEnvelope(lookup.stored.token)) =>
        /\ lookup.at - lookup.stored.at < 240 => authCalls = 0
        /\ (lookup.at - lookup.stored.at >= 300
            /\ pc \in {"client", "tests", "exited"}) => authCalls = 1

\* C3: store(subject, tok, 300) followed by lookup(subject) within the
\* validity window yields a token equal to tok.
C3_RoundTrip ==
    (/\ LookupOfStored
     /\ lookup.stored.expires_in = 300
     /\ WellFormedEnvelope(lookup.stored.token)
     /\ lookup.at < lookup.stored.at + 300 - SafetyMargin) =>
        /\ lookup.result.t = "str"
        /\ lookup.result.s = lookup.stored.token.s

\* C4: an entry written for a subject under one authority URL is never
\* returned by a lookup for that subject under a different authority URL.
C4_FingerprintIsolation ==
    (LookupOfStored /\ Truthy(lookup.result)) =>
        lookup.stored.url = args.keycloak_url

\* C5: when the cache file holds invalid JSON, or JSON that is not an object
\* with a numeric expires_at, load_cached_token returns None without raising
\* and the run goes on to ask for the password.
MalformedFile(f) ==
    \/ f.kind \in {"invalid", "nonobject"}
    \/ f.kind = "object" /\ f.expires_at.t # "num"

C5_MalformedCacheIsMiss ==
    (lookup.called /\ MalformedFile(lookup.file)) =>
        /\ ~lookup.raised
        /\ lookup.result = PyNone
        /\ pc = "password" \/ prompts = 1

C5_Witness ==
    /\ lookup.called
    /\ lookup.file.kind = "object"
    /\ lookup.file.expires_at.t = "str"
    /\ Truthy(FromJson(lookup.file.access_token))
    /\ pc = "get_token"

\* C6: decode_token_claims on a token whose number of dot-separated segments
\* is not three, or whose middle segment does not decode to JSON, returns the
\* empty claims {} and does not raise.
PayloadIsJson(d) == d.ok /\ JsonLoads(d.bytes).ok

MiddleOfPartsIsJson(parts) ==
    PayloadIsJson(B64Decode(parts[2] \o Pad(4 - (Len(parts[2]) % 4))))

MiddleIsJson(tok) == MiddleOfPartsIsJson(SplitDots(tok.s))

C6_DecodeMalformedIsEmpty ==
    (/\ pc \in {"tests", "exited"}
     /\ token.t = "str"
     /\ Len(SplitDots(token.s)) # 3 \/ ~MiddleIsJson(token)) =>
        /\ claims = [decoded |-> TRUE, kind |-> "obj", truthy |-> FALSE]
        /\ returned # "raised"

C6_Witness ==
    /\ pc = "tests"
    /\ Len(SplitDots(token.s)) = 2
    /\ claims.decoded
    /\ ~claims.truthy

\* C7: a cached token that is not expired but does not decode to non-empty
\* claims is not returned: the lookup is a miss, the password is asked for
\* and one token request is made.
UnexpiredEntry(f, t) ==
    /\ f.kind = "object"
    /\ Truthy(FromJson(f.access_token))
    /\ f.expires_at.t = "num"
    /\ t < f.expires_at.n - SafetyMargin

C7_InvalidCachedTokenIsMiss ==
    /\ (lookup.called /\ Truthy(lookup.result)) =>
            DecodeTokenClaims(lookup.result).truthy
    /\ (/\ lookup.called
        /\ UnexpiredEntry(lookup.file, lookup.at)
        /\ ~DecodeTokenClaims(FromJson(lookup.file.access_token)).truthy) =>
            /\ lookup.result = PyNone
            /\ pc = "password" \/ prompts = 1
            /\ pc \in {"client", "tests", "exited"} => authCalls = 1

C7_Witness ==
    /\ lookup.called
    /\ UnexpiredEntry(lookup.file, lookup.at)
    /\ lookup.file.access_token = FStr(TokTwoSegments)
    /\ prompts = 1
    /\ authCalls = 1

\* C8: with caching enabled, when a valid (well-formed, unexpired) cached
\* token exists for the user, run_demo shows no password prompt and makes no
\* authority call; the password is asked for only after a lookup miss or with
\* caching disabled.
ValidCachedToken(f, t) ==
    UnexpiredEntry(f, t) /\ WellFormedEnvelope(FromJson(f.access_token))

C8_ValidCacheNoPrompt ==
    /\ (args.use_cache /\ lookup.called
        /\ ValidCachedToken(lookup.file, lookup.at)) =>
            prompts = 0 /\ authCalls = 0
    /\ (prompts > 0 \/ pc = "password") =>
            \/ ~args.use_cache
            \/ lookup.called /\ lookup.result = PyNone

\* C9: with --no-cache run_demo does not read the cache and always asks the
\* authority for a new token, whatever the cache holds.
C9_NoCacheAlwaysRequests ==
    (pc \notin {"idle"} /\ args # NoArgs /\ ~args.use_cache) =>
        /\ ~lookup.called
        /\ pc \in {"password", "get_token", "client", "tests", "exited"}
        /\ pc \in {"client", "tests", "exited"} =>
              /\ prompts = 1
              /\ authCalls = 1
              /\ issued.called

C9_Witness ==
    /\ ~args.use_cache
    /\ args # NoArgs
    /\ pc = "tests"
    /\ authCalls = 1
    /\ issued.io = "open_fails"
    /\ ValidCachedToken(files[CachePath], issued.at)

\* C10: when the token request fails (status other than 200, network error
\* or timeout) get_token returns None, run_demo returns False, the process
\* exits with code 1 and no test suite is run against the gateway.
C10_FailedExchangeFailsRun ==
    (issued.called /\ issued.kind \in {"http_error", "exception"}) =>
        /\ token = PyNone
        /\ returned = "False"
        /\ exit_code = 1
        /\ pc = "exited"
        /\ suitesRun = {}

C10_Witness ==
    /\ issued.called
    /\ issued.kind = "http_error"
    /\ returned = "False"
    /\ exit_code = 1

\* C11: no automatic retry.  A run of interactive-demo.py sends at most one
\* token request to the authority; a run of auth-demo.py sends at most one
\* token request per demo user, and when it ends it has sent exactly one for
\* each of them, also when requests failed.
C11_OneTokenRequestPerPrincipal ==
    /\ authCalls <= 1
    /\ \A u \in 1..Len(DemoUsers) : ad_requests[u] <= 1
    /\ (ad_pc = "exited" /\ ad_unauth.called) =>
            \A u \in 1..Len(DemoUsers) : ad_requests[u] = 1

\* C12: a store overwrites the entry of its key: after a store that wrote its
\* file, the file holds the stored token with expires_at = time of the store
\* + expires_in, whatever it held before; the files of other keys are
\* unchanged; and a later lookup that returns a token returns the token of
\* the latest store, never that of an earlier one.
StoreWritten ==
    /\ pc = "get_token"
    /\ issued'.called
    /\ issued'.kind = "ok"
    /\ issued'.io = "ok"

StoreOverwrites ==
    /\ files'[CachePath] =
            Object(ToJson(issued'.access_token),
                   FNum(now + issued'.expires_in), FNum(now))
    /\ \A p \in Paths \ {CachePath} : files'[p] = files[p]

LookupReturnsLatestStore ==
    (lookup.called /\ lookup.stored.set /\ Truthy(lookup.result)) =>
        lookup.result = lookup.stored.token

C12_StoreOverwrites ==
    /\ [][StoreWritten => StoreOverwrites]_vars
    /\ []LookupReturnsLatestStore

C12_Witness ==
    /\ lookup.called
    /\ lookup.stored.set
    /\ lookup.file.kind = "object"
    /\ issued.called
    /\ issued.io = "ok"
    /\ lookup.stored.token # issued.access_token
    /\ files[CachePath] =
            Object(ToJson(issued.access_token),
                   FNum(issued.at + issued.expires_in), FNum(issued.at))
    /\ \E p \in Paths \ {CachePath} : files[p].kind = "object"

\* C13: a store executed while the cache directory does not exist creates
\* the directory and persists the entry: after the store step of a run the
\* directory exists, and the file of the key holds the stored token unless
\* the write itself failed.
C13_StoreCreatesDirectory ==
    (pc \in {"client", "tests"} /\ issued.called /\ issued.kind = "ok") =>
        /\ cache_dir
        /\ issued.io = "ok" =>
              files[CachePath] =
                  Object(ToJson(issued.access_token),
                         FNum(issued.at + issued.expires_in),
                         FNum(issued.at))

\* C14: load_cached_token changes nothing in the cache directory, whether
\* the entry is returned, expired, malformed or invalid; the program changes
\* a cache file only in the store of a token request answered with 200, and
\* then only the file of the run's key.
LookupReadsOnly ==
    pc = "load" => (files' = files /\ cache_dir' = cache_dir)

ProgramStep == pc \in {"load", "get_token", "client", "tests"}

OnlyStoreWrites ==
    \A p \in Paths :
        (ProgramStep /\ files'[p] # files[p]) =>
            /\ pc = "get_token"
            /\ p = CachePath
            /\ issued'.kind = "ok"
            /\ issued'.io \in {"ok", "dump_fails"}

C14_LookupLeavesCache == [][LookupReadsOnly /\ OnlyStoreWrites]_vars

C14_Witness ==
    /\ lookup.called
    /\ lookup.result = PyNone
    /\ UnexpiredEntry(lookup.file, lookup.at)
    /\ pc = "get_token"
    /\ files[CachePath] = lookup.file

\* C15: a structurally malformed token (segment count other than three, or
\* a middle segment that does not decode to JSON) is a miss when it is read
\* from the cache, and fatal when the authority has just issued it: the run
\* fails without running a test suite.
StructurallyMalformedParts(parts) ==
    \/ Len(parts) # 3
    \/ ~PayloadIsJson(
          UrlSafeB64Decode(parts[2] \o Pad(4 - (Len(parts[2]) % 4))))

StructurallyMalformed(tok) ==
    tok.t = "str" /\ StructurallyMalformedParts(SplitDots(tok.s))

C15_MalformedIssuedTokenIsFatal ==
    /\ (lookup.called /\ Truthy(lookup.result)) =>
            ~StructurallyMalformed(lookup.result)
    /\ (/\ issued.called
        /\ issued.kind = "ok"
        /\ StructurallyMalformed(issued.access_token)
        /\ pc \notin {"get_token"}) =>
            /\ pc = "exited"
            /\ returned # "True"
            /\ exit_code = 1
            /\ suitesRun = {}

\* C16: a token obtained from the authority has been handed to the store of
\* the run's key before run_demo uses it: when the run goes on with an
\* issued token, save_token_to_cache has run, no gateway call was made
\* before it, and unless the write failed the file of the key holds that
\* token with expires_at = time of issue + expires_in.
C16_IssuedTokenStoredFirst ==
    (/\ pc \in {"client", "tests"}
     /\ issued.called
     /\ Truthy(token)) =>
        /\ token = issued.access_token
        /\ issued.io \in IoOutcomes
        /\ pc = "client" => results.calls = {}
        /\ issued.io = "ok" =>
              files[CachePath] =
                  Object(ToJson(token), FNum(issued.at + issued.expires_in),
                         FNum(issued.at))

C16_Witness ==
    /\ pc = "tests"
    /\ suite = "files"
    /\ "models.list" \in results.calls
    /\ issued.called
    /\ issued.io = "ok"
    /\ token = PyStr(TokJwtUrl)
    /\ files[CachePath].access_token = FStr(TokJwtUrl)

\* C20: a failed token request (a status other than 200, or an exception)
\* performs no store: every cache file keeps its content, and the run ends
\* without a token.
FailedTokenRequest ==
    /\ pc = "get_token"
    /\ issued'.called
    /\ issued'.kind \in {"http_error", "exception"}

C20_FailedRequestLeavesCache ==
    [][FailedTokenRequest =>
          /\ files' = files
          /\ cache_dir' = cache_dir
          /\ issued'.io = "none"
          /\ token' = PyNone]_vars

C20_Witness ==
    /\ issued.called
    /\ issued.kind = "http_error"
    /\ lookup.called
    /\ lookup.file.kind = "object"
    /\ lookup.stored.set
    /\ files[CachePath] = lookup.file
    /\ \E p \in Paths \ {CachePath} : files[p].kind = "object"

\* C17: gateway call failures do not abort the run: once run_demo has its
\* token and has reached the test suites, no denied or failing gateway call
\* ends it; it runs every selected suite, returns True and exits with 0.
ReachedSuites ==
    \/ pc = "tests"
    \/ /\ pc = "exited"
       /\ claims.decoded
       /\ claims.truthy => claims.kind = "obj"

C17_GatewayFailuresDoNotAbort ==
    ReachedSuites =>
        /\ Truthy(token)
        /\ returned # "raised"
        /\ pc = "exited" =>
              /\ returned = "True"
              /\ exit_code = 0
              /\ suitesRun = args.tests_to_run

C17_Witness ==
    /\ pc = "exited"
    /\ returned = "True"
    /\ args.tests_to_run = AvailableTests
    /\ args.username = "developer"
    /\ results.file_id
    /\ results.team_access = "None"
    /\ {"chat.gpt-4o", "files.list", "vector_stores.delete", "files.delete",
        "responses.create", "team.vector_stores.create"} \subseteq results.failed

\* C18: when auth-demo.py reports overall success (run_demo returns True and
\* prints that unauthenticated requests are properly rejected), the
\* unauthenticated request to /v1/models of that run was answered with 401.
C18_SuccessImpliesUnauthenticatedRejected ==
    ad_returned = "True" =>
        /\ ad_unauth.called
        /\ ~ad_unauth.response.raised
        /\ ad_unauth.response.status_code = 401

\* C19: the --tests value is validated before anything else happens: 'all'
\* selects the five suites, a comma-separated list selects the suites it
\* names, and a list with a name that is not a suite makes the program exit
\* with code 1 before run_demo (no lookup, no prompt, no token request, no
\* gateway call); run_demo runs a suite, and makes its gateway calls, only if
\* the suite is selected, and a run that returns True has run them all.
Selects(S) == [rejected |-> FALSE, selected |-> S]

Rejects == [rejected |-> TRUE, selected |-> {}]

\* What the claim expects of each --tests value.
ExpectedSelection(raw) ==
    CASE raw = <<"a","l","l">> ->
            Selects({"models", "files", "vectors", "mcp", "team"})
      [] raw = <<"m","o","d","e","l","s", ",", "f","i","l","e","s">> ->
            Selects({"models", "files"})
      [] raw = <<"M","o","d","e","l","s", ",", " ", "f","i","l","e","s", " ">> ->
            Selects({"models", "files"})
      [] raw = <<"b","o","g","u","s">> -> Rejects
      [] raw = <<"m","o","d","e","l","s", ",", "b","o","g","u","s">> -> Rejects
      [] raw = <<"a","l","l", ",", "m","o","d","e","l","s">> -> Rejects

CallsOfSuite(n) ==
    CASE n = "models" -> ModelCalls
      [] n = "files" -> FileCalls \cup CleanupCalls
      [] n = "vectors" -> VectorCalls
      [] n = "mcp" -> McpCalls
      [] n = "team" -> TeamCalls

SelectionHonoured(e) ==
    IF e.rejected
    THEN /\ pc = "exited"
         /\ exit_code = 1
         /\ returned = "none"
         /\ ~lookup.called
         /\ prompts = 0
         /\ authCalls = 0
         /\ suitesRun = {}
         /\ results.calls = {}
    ELSE /\ args.tests_to_run = e.selected
         /\ suitesRun \subseteq e.selected
         /\ results.calls \subseteq UNION {CallsOfSuite(n) : n \in e.selected}
         /\ returned = "True" => suitesRun = e.selected

C19_TestSelectionValidated ==
    (pc # "idle" /\ argv.has_secret) =>
        SelectionHonoured(ExpectedSelection(argv.tests))

C19_Witness ==
    /\ pc = "exited"
    /\ argv.has_secret
    /\ argv.tests = <<"m","o","d","e","l","s", ",", "b","o","g","u","s">>
    /\ exit_code = 1
    /\ files[TokenCachePath(DefaultUrl, "alice")].kind = "object"

\* C21: every entry persisted by the token request holds a non-empty
\* access_token: save_token_to_cache is executed only for a token that
\* get_token returns as a success, so a 200 response without an access_token
\* field writes no cache entry.
C21_PersistedTokenNonEmpty ==
    /\ \A p \in Paths : stored[p].set => Truthy(stored[p].token)
    /\ (issued.called /\ issued.io # "none") =>
            /\ Truthy(issued.response_token)
            /\ issued.access_token = issued.response_token

\* C22 as stated: a failure to write the cache file does not fail the
\* resolution (get_token returns the issued token and run_demo goes on with
\* it), and the next run of the same key misses the cache.
WriteFailed ==
    /\ issued.called
    /\ issued.kind = "ok"
    /\ issued.io \in {"open_fails", "dump_fails"}

ResolutionUnaffected ==
    /\ issued.access_token = issued.response_token
    /\ token = issued.access_token
    /\ Truthy(token) => returned # "False"
    /\ (Truthy(token) /\ pc = "exited") => returned \in {"True", "raised"}

NextLookup == LoadCachedToken(files[CachePath], now)

C22_WriteFailureNextRunMisses ==
    WriteFailed =>
        /\ ResolutionUnaffected
        /\ ~Truthy(NextLookup.result)

\* C22, amended: a failure to write the cache file does not fail the
\* resolution; the issued token is not persisted, and the next run of the
\* same key misses the cache unless open() failed on a file that still holds
\* an earlier store's unexpired entry, which that run is then handed.
C22_WriteFailureNotFatal ==
    WriteFailed =>
        /\ ResolutionUnaffected
        /\ issued.io = "open_fails" => stored[CachePath].at <= issued.at
        /\ Truthy(NextLookup.result) =>
              /\ issued.io = "open_fails"
              /\ stored[CachePath].set
              /\ stored[CachePath].at + stored[CachePath].expires_in
                    - SafetyMargin > now
              /\ NextLookup.result = stored[CachePath].token

C22_Witness ==
    /\ WriteFailed
    /\ pc = "exited"
    /\ returned = "True"
    /\ Truthy(NextLookup.result)
    /\ NextLookup.result # issued.access_token

\* C23 as stated: with two runs at the same time on one cache file and no
\* locking, a lookup never raises and returns none or a token that some
\* store wrote in full, checked against that store's own expiry; and once
\* all writers have finished the file holds the last writer's entry.
EntryFile(e) == Object(FStr(e.token), FNum(e.expires_at), FNum(e.cached_at))

LookupSeesWholeEntries ==
    \A p \in Procs :
        proc[p].read.called =>
            /\ ~proc[p].read.raised
            /\ proc[p].read.file \in
                  {Absent, InvalidText} \cup {EntryFile(e) : e \in written}
            /\ Truthy(proc[p].read.result) =>
                  \E e \in written :
                      /\ proc[p].read.file = EntryFile(e)
                      /\ proc[p].read.result = PyStr(e.token)
                      /\ now < e.expires_at - SafetyMargin

WritersFinished ==
    /\ last_written.set
    /\ \A p \in Procs : proc[p].pc # "opened"

FileAfterWriters(last) ==
    /\ Len(disk.text) >= Len(last)
    /\ SubSeq(disk.text, 1, Len(last)) = last
    /\ disk.text # last =>
          /\ JsonLoadFile(disk.text) = InvalidText
          /\ LoadCachedToken(InvalidText, now) =
                [raised |-> FALSE, result |-> PyNone]
          /\ \E e \in written :
                /\ Len(DumpOf[e]) > Len(last)
                /\ disk.text = FileWrite(DumpOf[e], last)

CasePassed(role, answers, i) ==
    /\ ~answers[i].raised
    /\ (answers[i].status_code < 400) = ExpectedSuccess[role][i]

ExpectedUserResult(role, last) ==
    IF ~last.token
    THEN [success |-> FALSE, tests_passed |-> 0, tests_total |-> 0]
    ELSE [success |-> \A i \in 1..5 : CasePassed(role, last.answers, i),
          tests_passed |->
              Cardinality({i \in 1..5 : CasePassed(role, last.answers, i)}),
          tests_total |-> 5]

RECURSIVE SumOf(_, _)
SumOf(all_results, field) ==
    IF all_results = <<>> THEN 0
    ELSE Head(all_results)[field] + SumOf(Tail(all_results), field)

LastUserRecorded ==
    (ad_last.user # 0 /\ ad_pc # "cases" /\ ad_returned # "raised") =>
        /\ Len(ad_results) = ad_last.user
        /\ ad_results[ad_last.user] =
              ExpectedUserResult(DemoUsers[ad_last.user].role, ad_last)

EveryUserTested ==
    (ad_pc = "exited" /\ ad_unauth.called) =>
        /\ Len(ad_results) = Len(DemoUsers)
        /\ ad_returned \in {"True", "False"}
        /\ ad_returned = "True" <=>
              \A u \in 1..Len(DemoUsers) : ad_results[u].success
        /\ ad_exit = IF ad_returned = "True" THEN 0 ELSE 1

C24_AuthDemoVerdicts ==
    /\ LastUserRecorded
    /\ EveryUserTested
    /\ SumOf(ad_results, "tests_passed") <= SumOf(ad_results, "tests_total")

\* C25: with 'files' and 'vectors' selected the operations run in the order
\* file upload, file list, vector-store create, attach file, vector-store
\* delete, file delete; the attachment is attempted only if the store was
\* created and a file was uploaded, the store delete iff the create
\* succeeded, the file delete iff the upload produced a file id: no uploaded
\* file and no temporary vector store is left without a delete attempt.
FileAndVectorOrder ==
    <<"files.create", "files.list", "vector_stores.create",
      "vector_stores.files.create", "vector_stores.delete", "files.delete">>

RECURSIVE Restrict(_, _)
Restrict(order, S) ==
    IF order = <<>> THEN <<>>
    ELSE (IF Head(order) \in S THEN <<Head(order)>> ELSE <<>>)
         \o Restrict(Tail(order), S)

Succeeded(c) == c \in results.calls \ results.failed

Attempted(c) == c \in results.calls

FilesAndVectorsSelected ==
    /\ pc \in {"tests", "exited"}
    /\ {"files", "vectors"} \subseteq args.tests_to_run

C25_FileAndVectorLifecycle ==
    FilesAndVectorsSelected =>
        /\ Restrict(results.order, Range(FileAndVectorOrder)) =
              Restrict(FileAndVectorOrder, results.calls)
        /\ Attempted("vector_stores.files.create") =>
              /\ Succeeded("vector_stores.create")
              /\ Succeeded("files.create")
        /\ suite \notin {"models", "files", "vectors"} =>
              (Attempted("vector_stores.delete") <=>
                   Succeeded("vector_stores.create"))
        /\ suite \notin {"models", "files", "vectors", "cleanup"} =>
              /\ Attempted("files.delete") <=> Succeeded("files.create")
              /\ {"files.create", "files.list", "vector_stores.create"}
                    \subseteq results.calls
        /\ returned = "True" =>
              /\ results.file_id => Attempted("files.delete")
              /\ Succeeded("vector_stores.create") =>
                    Attempted("vector_stores.delete")

C25_Witness ==
    /\ FilesAndVectorsSelected
    /\ returned = "True"
    /\ results.order = FileAndVectorOrder
    /\ results.failed = {"vector_stores.files.create"}

\* C26: create_team_vector_store creates the store vs_mlteam_team only for
\* the user 'developer' and never when a store of that name exists: over any
\* sequence of runs at most one such store is created.
C26_AtMostOneTeamStore ==
    /\ Attempted("team.vector_stores.create") => args.username = "developer"
    /\ team_stores <= 1

\* C27: test_access_to_team_vector_store returns its results dict on every
\* path, with can_access and store_exists True iff the team store is in the
\* listing; when the listing fails, with 403 Forbidden too, it returns the
\* dict with can_access False.
C27_TeamAccessReturnsDict ==
    Attempted("access.vector_stores.list") =>
        /\ results.team_access \in {"can_access", "no_access"}
        /\ results.team_access = "can_access" => team_stores > 0
        /\ "access.vector_stores.list" \in results.failed =>
              results.team_access = "no_access"

\* A step of setup_all that failed: it returned False or raised.
StepFailed(entry) == entry.result \in {"False", "raised"}

\* Every step after the token request found what it creates in place.
AlreadyProvisioned ==
    /\ Len(kc_log) = Len(KcSteps)
    /\ \A i \in 2..Len(KcSteps) : kc_log[i].all_exist

\* C28: setup_all runs its steps in the order admin token, realm, client,
\* roles, groups, protocol mappers, users; a step that fails is the last one
\* run and setup_all returns False; a step whose requests are all answered
\* with 409 succeeds, so a run against an identity provider that holds
\* everything already (and answers the client secret request) returns True;
\* a token request that fails is caught, no later step runs and setup_all
\* returns False. The process exits with 0 exactly on True.
C28_SetupAllOrderAndVerdict ==
    /\ Len(kc_log) <= Len(KcSteps)
    /\ \A i \in DOMAIN kc_log : kc_log[i].step = KcSteps[i]
    /\ \A i \in DOMAIN kc_log :
          StepFailed(kc_log[i]) =>
              /\ i = Len(kc_log)
              /\ kc_pc = "done"
              /\ kc_returned = "False"
    /\ \A i \in DOMAIN kc_log :
          kc_log[i].all_exist => kc_log[i].result = "True"
    /\ kc_pc = "done" /\ AlreadyProvisioned /\ kc_secret # "raised" =>
          kc_returned = "True"
    /\ kc_pc = "done" /\ kc_log[1].result = "raised" =>
          Len(kc_log) = 1 /\ kc_returned = "False"
    /\ kc_pc = "done" <=> kc_returned \in {"True", "False"}
    /\ kc_returned = "True" =>
          Len(kc_log) = Len(KcSteps) /\ kc_exit = 0
    /\ kc_returned = "False" => kc_exit = 1

\* A run against an identity provider that holds everything has returned
\* True.
C28_Witness ==
    /\ kc_pc = "done"
    /\ AlreadyProvisioned
    /\ kc_returned = "True"

====
